---------------------------- MODULE Spec2Model ----------------------------
(***************************************************************************)
(* A model of the route-generation engine of drawmyroute (backend/app/     *)
(* services): the point-to-point OSRM road snapper, the chunked Mapbox     *)
(* road snapper, the route scorer, the iterative scaling controller, the   *)
(* local-search refiner and the shape suggester.                           *)
(*                                                                         *)
(* Conventions.  Python lists are sequences; a Python index i is the TLA+  *)
(* index i + 1.  A GPS point is <<lat, lng>>, a GeoJSON coordinate is      *)
(* <<lng, lat>>.  Lengths are whole metres on a local grid.  Python floats *)
(* are modelled by exact fractions <<num, den>> with den > 0.              *)
(***************************************************************************)
EXTENDS Integers, Sequences, FiniteSets, TLC

VARIABLES
    \* ---- snap_to_roads_osrm (osrm_router.py) ----
    pc,                  \* position in snap_to_roads_osrm
    gps_points,          \* argument: list of (lat, lng)
    original_num_points,
    max_skips_allowed,
    pass,                \* 1: first routing pass, 2: re-routing of the filtered points
    segments,
    new_segments,
    results,
    batch_start,
    tasks,               \* the route_segment_osrm coroutines created in this pass
    completed,           \* indices of the current batch's tasks, in completion order
    outlier_indices,
    max_detour_ratio,
    skipped_points,
    ret,                 \* what the call returned or raised
    \* ---- calculate_route_quality, is_route_acceptable (scoring.py) ----
    target_distance,     \* target_distance_km, in metres
    evaluation,          \* the scorer's latest evaluation: its inputs, locals and results
    previous,            \* routed distance and distance sub-score of the one before
    \* ---- snap_to_roads (map_matcher.py) ----
    mb_pc,               \* position in snap_to_roads
    mb_points,           \* argument gps_points
    chunks,
    chunk_i,             \* the chunking loop's i
    idx,                 \* the index of the chunk being routed
    all_coords,
    total_distance,
    requested,           \* history: the point lists sent to Mapbox, in order
    error_replies,       \* history: the number of error replies received
    mb_ret,              \* what the call returned or raised
    \* ---- route_with_scaling (route_generator.py) ----
    rs_pc,               \* position in route_with_scaling
    distance_km,         \* argument distance_km, held in metres
    iteration,
    scale_factor,        \* a fraction
    best_result,
    best_distance_diff,  \* a fraction, <<1, 0>> for float('inf')
    snap_calls,          \* history: the scale_factor and the result of every snap call
    rs_ret,              \* what the call returned or raised
    \* ---- local_search_refine (optimizer.py) ----
    ls_pc,               \* position in local_search_refine
    seed_points,         \* arguments seed_points, seed_score, seed_result, skip_first_last
    seed_score,
    seed_result,
    skip_first_last,
    current_points,
    current_score,
    current_result,
    refine_round,        \* the loop variable iteration of local_search_refine
    cand,                \* how many candidates of the round have been tried
    candidate_points,
    improved_this_round,
    best_improvement,
    best_candidate,      \* best_candidate_points, _score and _result
    offers,              \* history: per round, the best score evaluate_fn gave
    evaluation_raised,   \* history: an evaluation has raised
    ls_ret,              \* what the call returned
    \* ---- suggest_best_route (suggest_service.py) ----
    sg_pc,               \* position in suggest_best_route
    store,               \* the shape database: name -> svg path, where found
    sg_distance_km,      \* the target distance, in metres
    num_candidates,
    candidate_shapes,    \* the (name, svg_path) pairs evaluated
    shape_tasks,         \* the evaluate_shape coroutines handed to gather
    shape_results,       \* results, as gather returned them
    sg_ret               \* what the call returned or raised

osrm_vars == <<pc, gps_points, original_num_points, max_skips_allowed, pass,
               segments, new_segments, results, batch_start, tasks, completed,
               outlier_indices, max_detour_ratio, skipped_points, ret>>

sc_vars == <<target_distance, evaluation, previous>>

mb_vars == <<mb_pc, mb_points, chunks, chunk_i, idx, all_coords, total_distance,
             requested, error_replies, mb_ret>>

rs_vars == <<rs_pc, distance_km, iteration, scale_factor, best_result, best_distance_diff,
             snap_calls, rs_ret>>

ls_vars == <<ls_pc, seed_points, seed_score, seed_result, skip_first_last, current_points,
             current_score, current_result, refine_round, cand, candidate_points,
             improved_this_round, best_improvement, best_candidate, offers,
             evaluation_raised, ls_ret>>

sg_vars == <<sg_pc, store, sg_distance_km, num_candidates, candidate_shapes,
             shape_tasks, shape_results, sg_ret>>

vars == <<osrm_vars, sc_vars, mb_vars, rs_vars, ls_vars, sg_vars>>

-----------------------------------------------------------------------------
(* Bounds of the model *)

\* longest waypoint list handed to snap_to_roads_osrm
MaxPoints == 7

\* longest waypoint list handed to snap_to_roads
MaxChunkPoints == 51

\* the routed distances a snap call reports lie on a grid of MaxSnapSteps steps
MaxSnapSteps == 6

\* longest seed handed to local_search_refine
MaxSeedPoints == 3

\* cfg.OSRM_MAX_CONCURRENT: the size of one gather batch.  The program sets
\* it to 20 (routing_config.py:31); the code uses it only as the batch
\* stride, and the model checks the batching with a small stride.
MAX_CONCURRENT == 3

-----------------------------------------------------------------------------
(* Program constants *)

\* routing_config.py; the ratios and weights are in hundredths
SCORE_WEIGHT_DISTANCE == 40
SCORE_WEIGHT_COVERAGE == 40
SCORE_WEIGHT_CLOSURE == 20
MAX_FAILED_SEGMENT_RATIO == 25
MIN_ACCEPTABLE_SCORE == 40
TARGET_RATIO_MIN == 70
TARGET_RATIO_MAX == 150
MAX_ITERATIONS == 4
\* in tenths
SCALE_DAMPING == 6
SCALE_MIN == 3
SCALE_MAX == 25

DETOUR_THRESHOLD == 10
\* map_matcher.py
MAPBOX_MAX_COORDS == 25
\* optimizer.py: the defaults of local_search_refine; scores are in tenths
max_iterations == 3
improvement_threshold == 10
\* MAX_SKIP_RATIO = 0.15, in hundredths
MAX_SKIP_RATIO == 15
MIN_STRAIGHT_LINE_M == 10

-----------------------------------------------------------------------------
(* Arithmetic helpers *)

Abs(x) == IF x < 0 THEN -x ELSE x

Max(a, b) == IF a >= b THEN a ELSE b

Min(a, b) == IF a <= b THEN a ELSE b

\* fractions <<num, den>>, den > 0
FracLess(p, q) == p[1] * q[2] < q[1] * p[2]

FracMax(p, q) == IF FracLess(p, q) THEN q ELSE p

RECURSIVE GCD(_, _)
GCD(a, b) == IF b = 0 THEN a ELSE GCD(b, a % b)

\* the fraction num/den in lowest terms (den > 0); <<1, 0>> stands for +inf
Frac(num, den) ==
    IF den = 0 THEN <<1, 0>>
    ELSE LET g == GCD(Abs(num), den)
         IN  IF g = 0 THEN <<0, 1>> ELSE <<num \div g, den \div g>>

FracAdd(p, q) == Frac(p[1] * q[2] + q[1] * p[2], p[2] * q[2])

FracSub(p, q) == Frac(p[1] * q[2] - q[1] * p[2], p[2] * q[2])

FracMul(p, q) == Frac(p[1] * q[1], p[2] * q[2])

FracAbs(p) == <<Abs(p[1]), p[2]>>

FracLeq(p, q) == p[1] * q[2] <= q[1] * p[2]

\* round(num/den) to the nearest integer, ties to even (Python's round and
\* the format specs :.0f, :.1f), for num >= 0 and den > 0
RoundHalfEven(num, den) ==
    LET q == num \div den
        r == num % den
    IN  IF 2 * r < den THEN q
        ELSE IF 2 * r > den THEN q + 1
        ELSE IF q % 2 = 0 THEN q ELSE q + 1

-----------------------------------------------------------------------------
(* Waypoints and the routing server *)

\* The waypoints lie on one meridian, alternately FarStep and NearStep metres
\* apart, so that both a true straight-line distance and the floor
\* MIN_STRAIGHT_LINE_M occur among the segments.
Lng0 == 100

FarStep == 15

NearStep == 5

GpsPoint(k) == <<(FarStep + NearStep) * (k \div 2) - NearStep * ((k + 1) % 2), Lng0>>

GpsPoints(n) == [k \in 1..n |-> GpsPoint(k)]

\* haversine_distance_m for points of the grid
haversine_distance_m(lat1, lng1, lat2, lng2) == Abs(lat2 - lat1) + Abs(lng2 - lng1)

\* the point of the road network nearest to a GPS point, as a GeoJSON coordinate
Snapped(p) == <<p[2] + 1, p[1]>>

\* The raw HTTP outcomes of GET /route/v1/{profile}/{start};{end}:
\* exc (client.get raised: a timeout, a connection error), 429, an empty
\* body, a body that is no JSON, the codes NoRoute and InvalidQuery, an Ok
\* without routes, and three routes.
OsrmReplies(start, end) ==
    {[exc |-> TRUE,  status |-> 0,   text |-> "",       code |-> "",        routes |-> <<>>],
     [exc |-> FALSE, status |-> 429, text |-> "",       code |-> "",        routes |-> <<>>],
     [exc |-> FALSE, status |-> 200, text |-> "",       code |-> "",        routes |-> <<>>],
     [exc |-> FALSE, status |-> 200, text |-> "<html>", code |-> "",        routes |-> <<>>],
     [exc |-> FALSE, status |-> 200, text |-> "json",   code |-> "NoRoute", routes |-> <<>>],
     [exc |-> FALSE, status |-> 400, text |-> "json",   code |-> "InvalidQuery",
      routes |-> <<>>],
     [exc |-> FALSE, status |-> 200, text |-> "json",   code |-> "Ok",      routes |-> <<>>]}
    \cup
    {[exc |-> FALSE, status |-> 200, text |-> "json", code |-> "Ok",
      routes |-> <<[coordinates |-> g[1], distance |-> g[2], duration |-> g[3]]>>] :
        g \in {<<<<Snapped(start), Snapped(end)>>, 20, 14>>,
               <<<<Snapped(start), Snapped(end)>>, 120, 86>>,
               <<<<>>, 20, 14>>}}

\* history: the fetch failed (a timeout, a 429, an empty or malformed body,
\* a status or code other than 200 Ok, no route in the body)
fetch_failed(reply) ==
    \/ reply.exc
    \/ reply.status # 200
    \/ reply.text # "json"
    \/ reply.code # "Ok"
    \/ reply.routes = <<>>

-----------------------------------------------------------------------------
(* route_segment_osrm *)

\* A value returned by route_segment_osrm: None (some = FALSE) or the dict
\* with coordinates, distance_m and duration_s; raised = TRUE stands for an
\* exception leaving the coroutine.  req is a history tag: the (start, end)
\* the coroutine was called with; the program never reads it.
NoneOf(req) ==
    [req |-> req, some |-> FALSE, raised |-> FALSE,
     coordinates |-> <<>>, distance_m |-> 0, duration_s |-> 0]

\* lines 88-100: the body of the try block once client.get has returned a
\* reply with a status other than 429
parsed_reply(req, reply) ==
    IF reply.text = "" THEN NoneOf(req)                \* if not response.text
    ELSE IF reply.text # "json"                        \* response.json() raises
    THEN [NoneOf(req) EXCEPT !.raised = TRUE]
    ELSE IF reply.status = 200 /\ reply.code = "Ok"
    THEN IF reply.routes = <<>>                        \* data["routes"][0] raises
         THEN [NoneOf(req) EXCEPT !.raised = TRUE]
         ELSE [req |-> req, some |-> TRUE, raised |-> FALSE,
               coordinates |-> reply.routes[1].coordinates,
               distance_m |-> reply.routes[1].distance,
               duration_s |-> reply.routes[1].duration]
    ELSE NoneOf(req)

\* lines 75-106: what route_segment_osrm returns; every exception of the try
\* block is caught and turned into None.  (The mutant has no except clause.)
segment_result_unguarded(req, reply) ==
    IF reply.exc THEN [NoneOf(req) EXCEPT !.raised = TRUE]
    ELSE parsed_reply(req, reply)

segment_result(req, reply) ==
    IF reply.exc THEN NoneOf(req)
    ELSE IF parsed_reply(req, reply).raised THEN NoneOf(req)
    ELSE parsed_reply(req, reply)

\* line 83: the rate-limited branch sleeps one second before returning None
is_rate_limited(reply) == ~reply.exc /\ reply.status = 429

-----------------------------------------------------------------------------
(* snap_to_roads_osrm: pure parts *)

\* lines 137, 183: [(pts[i], pts[i + 1]) for i in range(len(pts) - 1)]
SegmentPairs(pts) ==
    IF Len(pts) < 2 THEN <<>>
    ELSE [i \in 1..(Len(pts) - 1) |-> <<pts[i], pts[i + 1]>>]

\* line 131: int(original_num_points * MAX_SKIP_RATIO).  (The mutant rounds up.)
MaxSkips_rounded_up(n) == (n * MAX_SKIP_RATIO + 99) \div 100

MaxSkips(n) == (n * MAX_SKIP_RATIO) \div 100

\* lines 143, 188: segs[batch_start:batch_start + MAX_CONCURRENT]
BatchSlice(segs, start) ==
    SubSeq(segs, start + 1, Min(start + MAX_CONCURRENT, Len(segs)))

\* lines 157-158
StraightM(seg) ==
    Max(haversine_distance_m(seg[1][1], seg[1][2], seg[2][1], seg[2][2]),
        MIN_STRAIGHT_LINE_M)

\* line 164: detour_ratio > DETOUR_THRESHOLD, detour_ratio = routed_m / straight_m
IsOutlier(result, seg) == result.distance_m > DETOUR_THRESHOLD * StraightM(seg)

\* lines 152-169, from Python index i on: the waypoint indices flagged.
\* (The mutant flags the start of the segment instead of its end.)
RECURSIVE OutliersFrom_start(_, _, _, _)
OutliersFrom_start(i, res, segs, n) ==
    IF i >= Min(Len(res), Len(segs)) THEN <<>>
    ELSE LET flagged == /\ res[i + 1].some
                        /\ IsOutlier(res[i + 1], segs[i + 1])
                        /\ 0 < i
                        /\ i < n - 1
         IN  (IF flagged THEN <<i>> ELSE <<>>) \o OutliersFrom_start(i + 1, res, segs, n)

\* (A second mutant leaves the guard of line 167 out.)
RECURSIVE OutliersFrom_unguarded(_, _, _, _)
OutliersFrom_unguarded(i, res, segs, n) ==
    IF i >= Min(Len(res), Len(segs)) THEN <<>>
    ELSE LET flagged == /\ res[i + 1].some
                        /\ IsOutlier(res[i + 1], segs[i + 1])
         IN  (IF flagged THEN <<i + 1>> ELSE <<>>)
                 \o OutliersFrom_unguarded(i + 1, res, segs, n)

RECURSIVE OutliersFrom(_, _, _, _)
OutliersFrom(i, res, segs, n) ==
    IF i >= Min(Len(res), Len(segs)) THEN <<>>
    ELSE LET flagged == /\ res[i + 1].some
                        /\ IsOutlier(res[i + 1], segs[i + 1])
                        /\ 0 < i + 1
                        /\ i + 1 < n - 1
         IN  (IF flagged THEN <<i + 1>> ELSE <<>>) \o OutliersFrom(i + 1, res, segs, n)

\* lines 150-162: the running maximum of detour_ratio, as a fraction
RECURSIVE MaxDetourFrom(_, _, _, _)
MaxDetourFrom(i, res, segs, acc) ==
    IF i >= Min(Len(res), Len(segs)) THEN acc
    ELSE IF ~res[i + 1].some THEN MaxDetourFrom(i + 1, res, segs, acc)
    ELSE MaxDetourFrom(i + 1, res, segs,
                       FracMax(acc, <<res[i + 1].distance_m, StraightM(segs[i + 1])>>))

SeqToSet(s) == {s[i] : i \in 1..Len(s)}

\* line 180: [p for i, p in enumerate(gps_points) if i not in outlier_indices]
RECURSIVE FilterFrom(_, _, _)
FilterFrom(i, pts, skip) ==
    IF i >= Len(pts) THEN <<>>
    ELSE (IF i \in SeqToSet(skip) THEN <<>> ELSE <<pts[i + 1]>>)
         \o FilterFrom(i + 1, pts, skip)

\* lines 205-208: the coordinates a routed segment adds to the polyline
routed_coords(i, result) ==
    IF i > 0 /\ result.coordinates # <<>>
    THEN Tail(result.coordinates) ELSE result.coordinates

\* lines 216-219: the coordinates a failed segment adds to the polyline.
\* (The mutants: no fallback at all; the fallback counted per point.)
fallback_coords_none(i, seg) == <<>>

fallback_coords(i, seg) ==
    (IF i = 0 THEN <<<<seg[1][2], seg[1][1]>>>> ELSE <<>>) \o <<<<seg[2][2], seg[2][1]>>>>

\* line 214: failed_segments += 1.  (The mutant counts the fallback points.)
failed_increment_per_point(i, seg) == Len(fallback_coords(i, seg))

failed_increment(i, seg) == 1

\* lines 198-219: the accumulators of phase 4 after the results from Python
\* index i on have been combined into acc
RECURSIVE CombineFrom(_, _, _, _)
CombineFrom(i, res, segs, acc) ==
    IF i >= Len(res) THEN acc
    ELSE LET result == res[i + 1]
             next ==
                 IF result.some
                 THEN [acc EXCEPT !.all_coords = @ \o routed_coords(i, result),
                                  !.total_distance = @ + result.distance_m,
                                  !.total_duration = @ + result.duration_s]
                 ELSE [acc EXCEPT !.failed_segments = @ + failed_increment(i, segs[i + 1]),
                                  !.all_coords = @ \o fallback_coords(i, segs[i + 1])]
         IN  CombineFrom(i + 1, res, segs, next)

Combined(res, segs) ==
    CombineFrom(0, res, segs,
                [all_coords |-> <<>>, total_distance |-> 0, total_duration |-> 0,
                 failed_segments |-> 0])

\* the tasks of the batch being gathered: Python indices batch_start ...
BatchTasks == (batch_start + 1)..Len(tasks)

\* asyncio.gather(*tasks), line 145 and 190: the values returned by the
\* batch's tasks in the order of the tasks, whatever order they completed in.
\* (The mutant takes them in completion order, as asyncio.as_completed would.)
gather_as_completed == [j \in 1..Len(completed) |-> tasks[completed[j]].res]

gather == [j \in 1..(Len(tasks) - batch_start) |-> tasks[batch_start + j].res]

\* gather returns once every awaited task has returned
gather_any_done == \E j \in BatchTasks : tasks[j].st = "done"

gather_done == \A j \in BatchTasks : tasks[j].st = "done"

-----------------------------------------------------------------------------
(* snap_to_roads_osrm: the call as a state machine *)

NoRet == [kind |-> "none"]

\* the list the batches are sliced from: segments (line 142), new_segments (line 187)
RouteList == IF pass = 1 THEN segments ELSE new_segments

OsrmInit ==
    /\ pc = "entry"
    /\ gps_points \in {GpsPoints(n) : n \in 0..MaxPoints}
    /\ original_num_points = 0
    /\ max_skips_allowed = 0
    /\ pass = 1
    /\ segments = <<>>
    /\ new_segments = <<>>
    /\ results = <<>>
    /\ batch_start = 0
    /\ tasks = <<>>
    /\ completed = <<>>
    /\ outlier_indices = <<>>
    /\ max_detour_ratio = <<1, 1>>
    /\ skipped_points = 0
    /\ ret = NoRet

\* lines 127-140
Enter ==
    /\ pc = "entry"
    /\ IF Len(gps_points) < 2
       THEN /\ pc' = "raised"
            /\ ret' = [kind |-> "ValueError", msg |-> "Need at least 2 points for routing"]
            /\ UNCHANGED <<original_num_points, max_skips_allowed, segments>>
       ELSE /\ pc' = "route"
            /\ original_num_points' = Len(gps_points)
            /\ max_skips_allowed' = MaxSkips(Len(gps_points))
            /\ segments' = SegmentPairs(gps_points)
            /\ ret' = ret
    /\ UNCHANGED <<gps_points, pass, new_segments, results, batch_start, tasks,
                   completed, outlier_indices, max_detour_ratio, skipped_points>>

\* lines 142-144 and 187-189: the next batch's coroutines are created
StartBatch ==
    /\ pc = "route"
    /\ batch_start < Len(RouteList)
    /\ pc' = "gather"
    /\ tasks' = tasks \o [j \in 1..Len(BatchSlice(RouteList, batch_start)) |->
                            [st |-> "created",
                             fetch_failed |-> FALSE,
                             req |-> BatchSlice(RouteList, batch_start)[j],
                             res |-> NoneOf(BatchSlice(RouteList, batch_start)[j])]]
    /\ completed' = <<>>
    /\ UNCHANGED <<gps_points, original_num_points, max_skips_allowed, pass, segments,
                   new_segments, results, batch_start, outlier_indices,
                   max_detour_ratio, skipped_points, ret>>

\* lines 66-77: a task runs up to its await of client.get: the request is in flight
Issue(j) ==
    /\ pc = "gather"
    /\ tasks[j].st = "created"
    /\ tasks' = [tasks EXCEPT ![j].st = "inflight"]
    /\ UNCHANGED <<pc, gps_points, original_num_points, max_skips_allowed, pass,
                   segments, new_segments, results, batch_start, completed,
                   outlier_indices, max_detour_ratio, skipped_points, ret>>

\* lines 77-106: client.get returns or raises; the task runs to its return,
\* or to its await of asyncio.sleep when the server answered 429
Respond(j) ==
    /\ pc = "gather"
    /\ tasks[j].st = "inflight"
    /\ \E reply \in OsrmReplies(tasks[j].req[1], tasks[j].req[2]) :
          IF is_rate_limited(reply)
          THEN /\ tasks' = [tasks EXCEPT ![j].st = "sleeping",
                                         ![j].fetch_failed = fetch_failed(reply)]
               /\ completed' = completed
          ELSE /\ tasks' = [tasks EXCEPT ![j].st = "done",
                                         ![j].fetch_failed = fetch_failed(reply),
                                         ![j].res = segment_result(tasks[j].req, reply)]
               /\ completed' = Append(completed, j)
    /\ UNCHANGED <<pc, gps_points, original_num_points, max_skips_allowed, pass,
                   segments, new_segments, results, batch_start,
                   outlier_indices, max_detour_ratio, skipped_points, ret>>

\* lines 85-86: the sleep is over, the task returns None
Wake(j) ==
    /\ pc = "gather"
    /\ tasks[j].st = "sleeping"
    /\ tasks' = [tasks EXCEPT ![j].st = "done", ![j].res = NoneOf(tasks[j].req)]
    /\ completed' = Append(completed, j)
    /\ UNCHANGED <<pc, gps_points, original_num_points, max_skips_allowed, pass,
                   segments, new_segments, results, batch_start,
                   outlier_indices, max_detour_ratio, skipped_points, ret>>

\* lines 145-146 and 190-191: gather returns, results.extend(batch_results),
\* and the for loop steps to the next batch_start; an exception that left a
\* task leaves gather and snap_to_roads_osrm too
GatherReturn ==
    /\ pc = "gather"
    /\ gather_done
    /\ IF \E j \in BatchTasks : tasks[j].res.raised
       THEN /\ pc' = "raised"
            /\ ret' = [kind |-> "Exception", msg |-> "raised by route_segment_osrm"]
            /\ UNCHANGED <<results, batch_start>>
       ELSE /\ results' = results \o gather
            /\ batch_start' = batch_start + MAX_CONCURRENT
            /\ pc' = "route"
            /\ ret' = ret
    /\ UNCHANGED <<gps_points, original_num_points, max_skips_allowed, pass, segments,
                   new_segments, tasks, completed, outlier_indices, max_detour_ratio,
                   skipped_points>>

\* lines 148-185 and 194-195: after the first pass the outliers are detected
\* and either the filtered points are set up for re-routing or the first
\* pass's results are kept
Detect ==
    /\ pc = "route"
    /\ pass = 1
    /\ batch_start >= Len(segments)
    /\ LET outliers == OutliersFrom(0, results, segments, Len(gps_points))
           filtered_points == FilterFrom(0, gps_points, outliers)
       IN  /\ outlier_indices' = outliers
           /\ max_detour_ratio' = MaxDetourFrom(0, results, segments, <<1, 1>>)
           /\ IF outliers # <<>> /\ Len(outliers) <= max_skips_allowed
              THEN /\ skipped_points' = Len(outliers)
                   /\ new_segments' = SegmentPairs(filtered_points)
                   /\ results' = <<>>
                   /\ tasks' = <<>>
                   /\ completed' = <<>>
                   /\ batch_start' = 0
                   /\ pass' = 2
                   /\ pc' = "route"
              ELSE /\ pc' = "combine"
                   /\ UNCHANGED <<skipped_points, new_segments, results, tasks,
                                  completed, batch_start, pass>>
    /\ UNCHANGED <<gps_points, original_num_points, max_skips_allowed, segments, ret>>

\* line 193: after the second pass, segments = new_segments
Rerouted ==
    /\ pc = "route"
    /\ pass = 2
    /\ batch_start >= Len(new_segments)
    /\ segments' = new_segments
    /\ pc' = "combine"
    /\ UNCHANGED <<gps_points, original_num_points, max_skips_allowed, pass,
                   new_segments, results, batch_start, tasks, completed,
                   outlier_indices, max_detour_ratio, skipped_points, ret>>

\* lines 197-241
Combine ==
    /\ pc = "combine"
    /\ LET c == Combined(results, segments)
       IN  IF c.all_coords = <<>>
           THEN /\ pc' = "raised"
                /\ ret' = [kind |-> "ValueError",
                           msg |-> "OSRM routing failed for all segments"]
           ELSE /\ pc' = "returned"
                /\ ret' = [kind |-> "return",
                           route |-> c.all_coords,
                           distance_m |-> c.total_distance,
                           duration_s |-> c.total_duration,
                           failed_segments |-> c.failed_segments,
                           total_segments |-> Len(segments),
                           skipped_points |-> skipped_points,
                           \* round(max_detour_ratio, 2), in hundredths
                           max_detour_ratio |->
                               RoundHalfEven(100 * max_detour_ratio[1],
                                             max_detour_ratio[2])]
    /\ UNCHANGED <<gps_points, original_num_points, max_skips_allowed, pass, segments,
                   new_segments, results, batch_start, tasks, completed,
                   outlier_indices, max_detour_ratio, skipped_points>>

-----------------------------------------------------------------------------
(* scoring.py *)

\* dict.get(key, default)
Get(d, key, default) == IF key \in DOMAIN d THEN d[key] ELSE default

\* scoring.haversine_distance_m(coord1, coord2): the coordinates are [lng, lat]
haversine_coords(coord1, coord2) ==
    haversine_distance_m(coord1[2], coord1[1], coord2[2], coord2[1])

\* lines 55-65: the distance sub-score of a distance_ratio, as a fraction.
\* (The mutant is the slip of leaving out abs() in the middle band.)
distance_score_without_abs(distance_ratio) ==
    IF FracLeq(<<9, 10>>, distance_ratio) /\ FracLeq(distance_ratio, <<11, 10>>)
    THEN <<1, 1>>
    ELSE IF FracLeq(<<7, 10>>, distance_ratio) /\ FracLeq(distance_ratio, <<13, 10>>)
    THEN FracSub(<<1, 1>>, FracMul(FracSub(distance_ratio, <<1, 1>>), <<1, 2>>))
    ELSE IF FracLeq(<<5, 10>>, distance_ratio) /\ FracLeq(distance_ratio, <<15, 10>>)
    THEN FracSub(<<1, 2>>, FracMul(FracAbs(FracSub(distance_ratio, <<1, 1>>)), <<1, 4>>))
    ELSE <<1, 5>>

\* (A second mutant: the outer band falls with the inner band's coefficient.)
distance_score_of_one_slope(distance_ratio) ==
    IF FracLeq(<<9, 10>>, distance_ratio) /\ FracLeq(distance_ratio, <<11, 10>>)
    THEN <<1, 1>>
    ELSE IF FracLeq(<<7, 10>>, distance_ratio) /\ FracLeq(distance_ratio, <<13, 10>>)
    THEN FracSub(<<1, 1>>, FracMul(FracAbs(FracSub(distance_ratio, <<1, 1>>)), <<1, 2>>))
    ELSE IF FracLeq(<<5, 10>>, distance_ratio) /\ FracLeq(distance_ratio, <<15, 10>>)
    THEN FracSub(<<1, 2>>, FracMul(FracAbs(FracSub(distance_ratio, <<1, 1>>)), <<1, 2>>))
    ELSE <<1, 5>>

distance_score_of(distance_ratio) ==
    IF FracLeq(<<9, 10>>, distance_ratio) /\ FracLeq(distance_ratio, <<11, 10>>)
    THEN <<1, 1>>
    ELSE IF FracLeq(<<7, 10>>, distance_ratio) /\ FracLeq(distance_ratio, <<13, 10>>)
    THEN FracSub(<<1, 1>>, FracMul(FracAbs(FracSub(distance_ratio, <<1, 1>>)), <<1, 2>>))
    ELSE IF FracLeq(<<5, 10>>, distance_ratio) /\ FracLeq(distance_ratio, <<15, 10>>)
    THEN FracSub(<<1, 2>>, FracMul(FracAbs(FracSub(distance_ratio, <<1, 1>>)), <<1, 4>>))
    ELSE <<1, 5>>

\* lines 50-67: distance_score; target_m is target_distance_km in metres
distance_score(result, target_m) ==
    IF target_m > 0
    THEN distance_score_of(Frac(result.distance_m, target_m))
    ELSE <<1, 2>>

\* lines 70-72 and 102-104
failed_ratio(result) ==
    Frac(Get(result, "failed_segments", 0), Max(Get(result, "total_segments", 1), 1))

\* lines 76-82
closure_score(result) ==
    LET coords == Get(result, "route", <<>>)
    IN  IF Len(coords) >= 2
        THEN Frac(100, haversine_coords(coords[1], coords[Len(coords)]) + 100)
        ELSE <<1, 2>>

\* (The mutant takes the failed share for the coverage.)
calculate_route_quality_failed_share(result, target_m) ==
    LET coverage_score == failed_ratio(result)
        final_score ==
            FracAdd(FracMul(<<SCORE_WEIGHT_DISTANCE, 1>>, distance_score(result, target_m)),
                    FracAdd(FracMul(<<SCORE_WEIGHT_COVERAGE, 1>>, coverage_score),
                            FracMul(<<SCORE_WEIGHT_CLOSURE, 1>>, closure_score(result))))
    IN  RoundHalfEven(10 * final_score[1], final_score[2])

\* lines 33-91: the score, in tenths of a point (round(final_score, 1))
calculate_route_quality(result, target_m) ==
    LET coverage_score == FracSub(<<1, 1>>, failed_ratio(result))
        final_score ==
            FracAdd(FracMul(<<SCORE_WEIGHT_DISTANCE, 1>>, distance_score(result, target_m)),
                    FracAdd(FracMul(<<SCORE_WEIGHT_COVERAGE, 1>>, coverage_score),
                            FracMul(<<SCORE_WEIGHT_CLOSURE, 1>>, closure_score(result))))
    IN  RoundHalfEven(10 * final_score[1], final_score[2])

\* line 106.  (The mutant rejects from the ceiling on: >= for >.)
too_many_failed_from_ceiling(result) ==
    FracLeq(<<MAX_FAILED_SEGMENT_RATIO, 100>>, failed_ratio(result))

too_many_failed(result) == FracLess(<<MAX_FAILED_SEGMENT_RATIO, 100>>, failed_ratio(result))

Accepted == [ok |-> TRUE, raised |-> "", reason |-> "", shown |-> 0]

Rejected(reason, shown) == [ok |-> FALSE, raised |-> "", reason |-> reason, shown |-> shown]

\* (The mutant accepts every result.)
is_route_acceptable_any(result, target_m) == Accepted

\* (A second mutant leaves the check of the upper end of the band out.)
is_route_acceptable_no_upper(result, target_m) ==
    IF too_many_failed(result)
    THEN Rejected("too many failed segments",
                  RoundHalfEven(100 * failed_ratio(result)[1], failed_ratio(result)[2]))
    ELSE IF target_m = 0
    THEN [ok |-> FALSE, raised |-> "ZeroDivisionError", reason |-> "", shown |-> 0]
    ELSE LET distance_ratio == Frac(result.distance_m, target_m)
             score == calculate_route_quality(result, target_m)
         IN  IF FracLess(distance_ratio, <<TARGET_RATIO_MIN, 100>>)
             THEN Rejected("route too short",
                           RoundHalfEven(10 * distance_ratio[1], distance_ratio[2]))
             ELSE IF score < 10 * MIN_ACCEPTABLE_SCORE
             THEN Rejected("quality too low", RoundHalfEven(score, 10))
             ELSE Accepted

\* lines 94-124: (is_acceptable, reason), or the exception raised.  `shown`
\* is the number the reason's format spec prints: {failed_ratio*100:.0f},
\* {distance_ratio:.1f} in tenths, {score:.0f}.
is_route_acceptable(result, target_m) ==
    IF too_many_failed(result)
    THEN Rejected("too many failed segments",
                  RoundHalfEven(100 * failed_ratio(result)[1], failed_ratio(result)[2]))
    ELSE IF target_m = 0
    THEN [ok |-> FALSE, raised |-> "ZeroDivisionError", reason |-> "", shown |-> 0]
    ELSE LET distance_ratio == Frac(result.distance_m, target_m)
             score == calculate_route_quality(result, target_m)
         IN  IF FracLess(<<TARGET_RATIO_MAX, 100>>, distance_ratio)
             THEN Rejected("route too long",
                           RoundHalfEven(10 * distance_ratio[1], distance_ratio[2]))
             ELSE IF FracLess(distance_ratio, <<TARGET_RATIO_MIN, 100>>)
             THEN Rejected("route too short",
                           RoundHalfEven(10 * distance_ratio[1], distance_ratio[2]))
             ELSE IF score < 10 * MIN_ACCEPTABLE_SCORE
             THEN Rejected("quality too low", RoundHalfEven(score, 10))
             ELSE Accepted

-----------------------------------------------------------------------------
(* The scorer applied to routing results *)

\* routed distances offered to the scorer: every DistStep metres up to
\* MaxDistSteps steps, and some off the grid
MaxDistSteps == 16

DistStep == 500

ScorerDistances == {DistStep * k : k \in 0..MaxDistSteps} \cup {3450, 6550, 15000}

\* the gap of a route that ends far from its start, in metres
FarGap == 40 * DistStep

\* (failed_segments, total_segments)
ScorerSegments == {<<0, 10>>, <<2, 8>>, <<5, 10>>}

\* polylines: empty, a closed loop, a loop left open by 300 m, and one
\* left open by FarGap
ScorerRoutes ==
    {<<>>,
     <<<<Lng0, 0>>, <<Lng0, 50>>, <<Lng0, 0>>>>,
     <<<<Lng0, 0>>, <<Lng0, 50>>, <<Lng0, 300>>>>,
     <<<<Lng0, 0>>, <<Lng0, 50>>, <<Lng0, FarGap>>>>}

ScorerResults ==
    {[route |-> r, distance_m |-> d, duration_s |-> 0, failed_segments |-> fs[1],
      total_segments |-> fs[2], skipped_points |-> 0, max_detour_ratio |-> 100] :
        r \in ScorerRoutes, d \in ScorerDistances, fs \in ScorerSegments}

\* target_distance_km, in metres
ScorerTargets == {0, 5000}

NoEvaluation == [made |-> FALSE]

ScorerInit ==
    /\ target_distance \in ScorerTargets
    /\ evaluation = NoEvaluation
    /\ previous = NoEvaluation

\* calculate_route_quality and is_route_acceptable are applied to a result;
\* the harness scores two results for one target
Evaluate ==
    /\ ~previous.made
    /\ \E result \in ScorerResults :
          evaluation' = [made |-> TRUE,
                         result |-> result,
                         distance_score |-> distance_score(result, target_distance),
                         score |-> calculate_route_quality(result, target_distance),
                         acceptable |-> is_route_acceptable(result, target_distance)]
    /\ previous' = IF evaluation.made
                   THEN [made |-> TRUE,
                         distance_m |-> evaluation.result.distance_m,
                         distance_score |-> evaluation.distance_score]
                   ELSE NoEvaluation
    /\ UNCHANGED target_distance

ScorerNext == Evaluate

-----------------------------------------------------------------------------
(* map_matcher.py *)

\* The raw HTTP outcomes of one Mapbox Directions call for a list of points:
\* client.get raises, the body is no JSON, an error status or code, an Ok
\* without routes, and two routes.
MapboxReplies(points) ==
    {[exc |-> TRUE,  status |-> 0,   text |-> "",       code |-> "",        routes |-> <<>>],
     [exc |-> FALSE, status |-> 200, text |-> "<html>", code |-> "",        routes |-> <<>>],
     [exc |-> FALSE, status |-> 200, text |-> "json",   code |-> "NoRoute", routes |-> <<>>],
     [exc |-> FALSE, status |-> 422, text |-> "json",   code |-> "InvalidInput",
      routes |-> <<>>],
     [exc |-> FALSE, status |-> 401, text |-> "json",   code |-> "",        routes |-> <<>>],
     [exc |-> FALSE, status |-> 200, text |-> "json",   code |-> "Ok",      routes |-> <<>>],
     [exc |-> FALSE, status |-> 200, text |-> "json",   code |-> "Ok",
      routes |-> <<[coordinates |-> [k \in 1..Len(points) |-> Snapped(points[k])],
                    distance |-> 10 * Len(points)]>>],
     [exc |-> FALSE, status |-> 200, text |-> "json",   code |-> "Ok",
      routes |-> <<[coordinates |-> <<>>, distance |-> 0]>>]}

\* history: the reply is no route (an exception, an error status or code)
is_error_reply(reply) ==
    \/ reply.exc
    \/ reply.text # "json"
    \/ reply.status # 200
    \/ reply.code # "Ok"
    \/ reply.routes = <<>>

Raised(error, msg) ==
    [raised |-> TRUE, error |-> error, msg |-> msg, route |-> <<>>, distance_m |-> 0]

\* lines 32-44 of _call_mapbox_directions: the dict returned or the
\* exception raised.  (The mutant returns an empty route for an error.)
call_mapbox_directions_lenient(reply) ==
    IF ~reply.exc /\ reply.text = "json" /\ reply.status = 200 /\ reply.code = "Ok"
       /\ reply.routes # <<>>
    THEN [raised |-> FALSE, error |-> "", msg |-> "",
          route |-> reply.routes[1].coordinates, distance_m |-> reply.routes[1].distance]
    ELSE [raised |-> FALSE, error |-> "", msg |-> "", route |-> <<>>, distance_m |-> 0]

call_mapbox_directions(reply) ==
    IF reply.exc THEN Raised("httpx.HTTPError", "")
    ELSE IF reply.text # "json" THEN Raised("JSONDecodeError", "")
    ELSE IF reply.status = 200 /\ reply.code = "Ok"
    THEN IF reply.routes = <<>> THEN Raised("IndexError", "")
         ELSE [raised |-> FALSE, error |-> "", msg |-> "",
               route |-> reply.routes[1].coordinates,
               distance_m |-> reply.routes[1].distance]
    ELSE Raised("ValueError",
                <<"Mapbox API Error", IF reply.code = "" THEN "Unknown" ELSE reply.code>>)

MbInit ==
    /\ mb_pc = "entry"
    /\ mb_points \in {GpsPoints(n) : n \in 0..MaxChunkPoints}
    /\ chunks = <<>>
    /\ chunk_i = 0
    /\ idx = 0
    /\ all_coords = <<>>
    /\ total_distance = 0
    /\ requested = <<>>
    /\ error_replies = 0
    /\ mb_ret = NoRet

\* lines 57-66: the single call is made, or the chunking loop is entered
MbEnter ==
    /\ mb_pc = "entry"
    /\ IF Len(mb_points) <= MAPBOX_MAX_COORDS
       THEN /\ mb_pc' = "single"
            /\ requested' = <<mb_points>>
       ELSE /\ mb_pc' = "chunking"
            /\ requested' = requested
    /\ UNCHANGED <<mb_points, chunks, chunk_i, idx, all_coords, total_distance,
                   error_replies, mb_ret>>

\* line 61: return await _call_mapbox_directions(gps_points, profile, radius)
MbSingleReply ==
    /\ mb_pc = "single"
    /\ \E reply \in MapboxReplies(mb_points) :
          LET result == call_mapbox_directions(reply)
          IN  /\ error_replies' = error_replies + (IF is_error_reply(reply) THEN 1 ELSE 0)
              /\ IF result.raised
                 THEN /\ mb_pc' = "raised"
                      /\ mb_ret' = [kind |-> result.error, msg |-> result.msg]
                 ELSE /\ mb_pc' = "returned"
                      /\ mb_ret' = [kind |-> "return", route |-> result.route,
                                    distance_m |-> result.distance_m]
    /\ UNCHANGED <<mb_points, chunks, chunk_i, idx, all_coords, total_distance, requested>>

\* lines 67-72: one turn of the chunking loop.  (The mutant steps to end
\* instead of end - 1: no overlap.)
ChunkStep_no_overlap ==
    /\ mb_pc = "chunking"
    /\ IF chunk_i < Len(mb_points)
       THEN LET end == Min(chunk_i + MAPBOX_MAX_COORDS, Len(mb_points))
            IN  /\ chunks' = Append(chunks, SubSeq(mb_points, chunk_i + 1, end))
                /\ chunk_i' = end
                /\ mb_pc' = IF end >= Len(mb_points) - 1 THEN "calling" ELSE "chunking"
       ELSE /\ mb_pc' = "calling"
            /\ UNCHANGED <<chunks, chunk_i>>
    /\ UNCHANGED <<mb_points, idx, all_coords, total_distance, requested, error_replies,
                   mb_ret>>

ChunkStep ==
    /\ mb_pc = "chunking"
    /\ IF chunk_i < Len(mb_points)
       THEN LET end == Min(chunk_i + MAPBOX_MAX_COORDS, Len(mb_points))
            IN  /\ chunks' = Append(chunks, SubSeq(mb_points, chunk_i + 1, end))
                /\ chunk_i' = end - 1
                /\ mb_pc' = IF end - 1 >= Len(mb_points) - 1 THEN "calling" ELSE "chunking"
       ELSE /\ mb_pc' = "calling"
            /\ UNCHANGED <<chunks, chunk_i>>
    /\ UNCHANGED <<mb_points, idx, all_coords, total_distance, requested, error_replies,
                   mb_ret>>

\* lines 80-82 and 96-99: the next chunk is sent, or the loop is over and the
\* combined route is returned
MbCall ==
    /\ mb_pc = "calling"
    /\ IF idx < Len(chunks)
       THEN /\ mb_pc' = "awaiting"
            /\ requested' = Append(requested, chunks[idx + 1])
            /\ mb_ret' = mb_ret
       ELSE /\ mb_pc' = "returned"
            /\ requested' = requested
            /\ mb_ret' = [kind |-> "return", route |-> all_coords,
                          distance_m |-> total_distance]
    /\ UNCHANGED <<mb_points, chunks, chunk_i, idx, all_coords, total_distance,
                   error_replies>>

\* lines 82-94: the chunk's call returns and its geometry is appended, or it
\* raises and the exception is raised again
MbChunkReply ==
    /\ mb_pc = "awaiting"
    /\ \E reply \in MapboxReplies(chunks[idx + 1]) :
          LET result == call_mapbox_directions(reply)
              chunk_coords == IF idx > 0 /\ result.route # <<>>
                              THEN Tail(result.route) ELSE result.route
          IN  /\ error_replies' = error_replies + (IF is_error_reply(reply) THEN 1 ELSE 0)
              /\ IF result.raised
                 THEN /\ mb_pc' = "raised"
                      /\ mb_ret' = [kind |-> result.error, msg |-> result.msg]
                      /\ UNCHANGED <<idx, all_coords, total_distance>>
                 ELSE /\ mb_pc' = "calling"
                      /\ all_coords' = all_coords \o chunk_coords
                      /\ total_distance' = total_distance + result.distance_m
                      /\ idx' = idx + 1
                      /\ mb_ret' = mb_ret
    /\ UNCHANGED <<mb_points, chunks, chunk_i, requested>>

-----------------------------------------------------------------------------
(* route_generator.py: route_with_scaling *)

\* routed distances reported by snap_to_roads_osrm, in metres
SnapDistances == {2500 * k : k \in 0..MaxSnapSteps} \cup {3000, 3500, 8000}

\* What the awaited snap_to_roads_osrm call gives: it raises, or it returns a
\* result with one of the distances and 0, 25% or 30% failed segments.
SnapOutcomes ==
    {[raised |-> TRUE,
      result |-> [kind |-> "ValueError",
                  msg |-> "OSRM routing failed for all segments"]]}
    \cup {[raised |-> FALSE,
           result |-> [route |-> <<<<Lng0, 0>>, <<Lng0, 50>>, <<Lng0, 0>>>>,
                       distance_m |-> d, duration_s |-> 0, failed_segments |-> fs[1],
                       total_segments |-> fs[2], skipped_points |-> 0,
                       max_detour_ratio |-> 100]] :
            d \in SnapDistances, fs \in {<<0, 10>>, <<2, 8>>, <<3, 10>>}}

\* target distances, in metres
ScalingTargets == {0, 5000}

\* lines 84-85: distance_ratio.  (The mutant forgets the division by 1000.0.)
distance_ratio_of_metres(result, target_m) == Frac(1000 * result.distance_m, target_m)

distance_ratio_of(result, target_m) == Frac(result.distance_m, target_m)

\* line 105
converged(distance_ratio) ==
    /\ FracLeq(<<TARGET_RATIO_MIN, 100>>, distance_ratio)
    /\ FracLeq(distance_ratio, <<TARGET_RATIO_MAX, 100>>)

\* line 112.  (The mutant leaves the clamp out.)
unclamped(scale) == scale

clamped(scale) ==
    LET capped == IF FracLess(<<SCALE_MAX, 10>>, scale) THEN <<SCALE_MAX, 10>> ELSE scale
    IN  FracMax(<<SCALE_MIN, 10>>, capped)

\* lines 110-112, for actual_km # 0.  (The mutant applies the whole adjustment,
\* without SCALE_DAMPING.)
next_scale_factor_undamped(scale, distance_m, target_m) ==
    clamped(FracMul(scale, Frac(target_m, distance_m)))

next_scale_factor(scale, distance_m, target_m) ==
    LET adjustment == Frac(target_m, distance_m)
        factor == FracAdd(<<1, 1>>,
                          FracMul(FracSub(adjustment, <<1, 1>>), <<SCALE_DAMPING, 10>>))
    IN  clamped(FracMul(scale, factor))

\* line 94.  (The mutant also takes a candidate that is just as close.)
closer_or_equal(distance_diff, best) == FracLeq(distance_diff, best)

closer(distance_diff, best) == FracLess(distance_diff, best)

NoBest == [some |-> FALSE]

ScalingInit ==
    /\ rs_pc = "loop"
    /\ distance_km \in ScalingTargets
    /\ iteration = 0
    /\ scale_factor = <<1, 1>>
    /\ best_result = NoBest
    /\ best_distance_diff = <<1, 0>>
    /\ snap_calls = <<>>
    /\ rs_ret = NoRet

\* lines 64-76: the next iteration scales the points and calls the road snapper
SnapCall ==
    /\ rs_pc = "loop"
    /\ rs_pc' = "snapping"
    /\ UNCHANGED <<distance_km, iteration, scale_factor, best_result, best_distance_diff,
                   snap_calls, rs_ret>>

\* lines 76-112: the road snapper's call ends and the rest of the iteration runs
SnapReturn ==
    /\ rs_pc = "snapping"
    /\ \E outcome \in SnapOutcomes :
          LET result == outcome.result
              distance_ratio == distance_ratio_of(result, distance_km)
              distance_diff == FracAbs(FracSub(distance_ratio, <<1, 1>>))
              better == closer(distance_diff, best_distance_diff)
          IN  /\ snap_calls' = Append(snap_calls,
                                      [scale_factor |-> scale_factor, outcome |-> outcome])
              /\ IF outcome.raised
                 THEN /\ rs_pc' = "raised"
                      /\ rs_ret' = result
                      /\ UNCHANGED <<iteration, scale_factor, best_result, best_distance_diff>>
                 ELSE IF too_many_failed(result)
                 THEN /\ rs_pc' = "raised"
                      /\ rs_ret' = [kind |-> "ValueError",
                                    msg |-> "Location has poor road coverage"]
                      /\ UNCHANGED <<iteration, scale_factor, best_result, best_distance_diff>>
                 ELSE IF distance_km = 0
                 THEN /\ rs_pc' = "raised"
                      /\ rs_ret' = [kind |-> "ZeroDivisionError"]
                      /\ UNCHANGED <<iteration, scale_factor, best_result, best_distance_diff>>
                 ELSE /\ best_distance_diff' =
                            IF better THEN distance_diff ELSE best_distance_diff
                      /\ best_result' =
                            IF better
                            THEN [some |-> TRUE, result |-> result,
                                  scale_factor |-> scale_factor,
                                  score |-> calculate_route_quality(result, distance_km),
                                  distance_ratio |-> distance_ratio]
                            ELSE best_result
                      /\ IF converged(distance_ratio)
                         THEN /\ rs_pc' = "validate"
                              /\ UNCHANGED <<iteration, scale_factor, rs_ret>>
                         ELSE IF result.distance_m = 0
                         THEN /\ rs_pc' = "raised"
                              /\ rs_ret' = [kind |-> "ZeroDivisionError"]
                              /\ UNCHANGED <<iteration, scale_factor>>
                         ELSE /\ scale_factor' =
                                    next_scale_factor(scale_factor, result.distance_m,
                                                      distance_km)
                              /\ iteration' = iteration + 1
                              /\ rs_pc' = IF iteration + 1 < MAX_ITERATIONS
                                          THEN "loop" ELSE "validate"
                              /\ rs_ret' = rs_ret
    /\ UNCHANGED distance_km

\* lines 114-124: the best result is validated and returned
Validate ==
    /\ rs_pc = "validate"
    /\ IF ~best_result.some
       THEN /\ rs_pc' = "raised"
            /\ rs_ret' = [kind |-> "ValueError",
                          msg |-> "Could not generate route after all iterations"]
       ELSE LET verdict == is_route_acceptable(best_result.result, distance_km)
            IN  IF verdict.raised # ""
                THEN /\ rs_pc' = "raised"
                     /\ rs_ret' = [kind |-> verdict.raised]
                ELSE IF ~verdict.ok
                THEN /\ rs_pc' = "raised"
                     /\ rs_ret' = [kind |-> "ValueError",
                                   msg |-> <<"Route failed quality check", verdict.reason>>]
                ELSE /\ rs_pc' = "returned"
                     /\ rs_ret' = [kind |-> "return", value |-> best_result]
    /\ UNCHANGED <<distance_km, iteration, scale_factor, best_result, best_distance_diff,
                   snap_calls>>

-----------------------------------------------------------------------------
(* optimizer.py: local_search_refine *)

DIRECTIONS == <<"N", "S", "E", "W">>

\* meters_to_degrees_lng: the step in longitude grows with the latitude
LngStep(lat) == 1 + Abs(lat)

\* nudge_point, for the nudge distance as the unit of latitude
nudge_point(point, direction) ==
    CASE direction = "N" -> <<point[1] + 1, point[2]>>
      [] direction = "S" -> <<point[1] - 1, point[2]>>
      [] direction = "E" -> <<point[1], point[2] + LngStep(point[1])>>
      [] direction = "W" -> <<point[1], point[2] - LngStep(point[1])>>
      [] OTHER           -> point

\* nudge_point_set; index counts from 0
nudge_point_set(points, index, direction) ==
    [points EXCEPT ![index + 1] = nudge_point(points[index + 1], direction)]

\* lines 118-121: optimize_indices, counting from 0
\* (The mutant skips nothing.)
optimize_indices_all(points, skip) == [k \in 1..Len(points) |-> k - 1]

optimize_indices(points, skip) ==
    IF skip /\ Len(points) > 2
    THEN [k \in 1..(Len(points) - 2) |-> k]
    ELSE [k \in 1..Len(points) |-> k - 1]

\* the seeds: up to MaxSeedPoints distinct points
SeedPoints(n) == [k \in 1..n |-> <<k, 2 * k>>]

\* the scores evaluate_fn gives, in tenths
CandidateScores == {400, 500, 505, 510, 520, 530}

\* what the awaited evaluate_fn gives for a candidate: it raises, or it
\* returns a score and the result dict of this evaluation
EvaluateOutcomes(points) ==
    {[raised |-> TRUE, score |-> 0, result |-> [points |-> points, score |-> 0]]}
    \cup {[raised |-> FALSE, score |-> sc, result |-> [points |-> points, score |-> sc]] :
            sc \in CandidateScores}

\* line 139.  (The mutant takes the size of the difference.)
improvement_of_size(candidate_score, score) == Abs(candidate_score - score)

\* (A second mutant measures the improvement over the seed's score.)
improvement_of_seed(candidate_score, score) == candidate_score - seed_score

improvement_of(candidate_score, score) == candidate_score - score

\* line 152.  (The mutant accepts any improvement.)
accept_any(improved, improvement) == improved

accept(improved, improvement) == improved /\ improvement >= improvement_threshold

NoCandidate == [some |-> FALSE]

NoOffer == [best |-> -1, evaluated |-> 0]

RefineInit ==
    /\ ls_pc = "round"
    /\ seed_points \in {SeedPoints(n) : n \in 0..MaxSeedPoints}
    /\ seed_score = 500
    /\ seed_result = [points |-> seed_points, score |-> seed_score]
    /\ skip_first_last \in BOOLEAN
    /\ current_points = seed_points
    /\ current_score = seed_score
    /\ current_result = seed_result
    /\ refine_round = 0
    /\ cand = 0
    /\ candidate_points = <<>>
    /\ improved_this_round = FALSE
    /\ best_improvement = 0
    /\ best_candidate = NoCandidate
    /\ offers = <<>>
    /\ evaluation_raised = FALSE
    /\ ls_ret = NoRet

\* lines 123-125 and 162: a round begins, or the rounds are used up and the
\* current triple is returned
BeginRound ==
    /\ ls_pc = "round"
    /\ IF refine_round < max_iterations
       THEN /\ ls_pc' = "candidates"
            /\ improved_this_round' = FALSE
            /\ best_improvement' = 0
            /\ cand' = 0
            /\ offers' = Append(offers, NoOffer)
            /\ ls_ret' = ls_ret
       ELSE /\ ls_pc' = "returned"
            /\ ls_ret' = [kind |-> "return", points |-> current_points,
                          score |-> current_score, result |-> current_result]
            /\ UNCHANGED <<improved_this_round, best_improvement, cand, offers>>
    /\ UNCHANGED <<seed_points, seed_score, seed_result, skip_first_last, current_points,
                   current_score, current_result, refine_round, candidate_points,
                   best_candidate, evaluation_raised>>

\* lines 129-137 and 151-162: the next candidate of the round is nudged and
\* handed to evaluate_fn; or the round is over, and its best candidate is
\* accepted, or the search stops and the current triple is returned
Propose ==
    /\ ls_pc = "candidates"
    /\ LET indices == optimize_indices(current_points, skip_first_last)
       IN  IF cand < 4 * Len(indices)
           THEN /\ candidate_points' =
                      nudge_point_set(current_points, indices[(cand \div 4) + 1],
                                      DIRECTIONS[(cand % 4) + 1])
                /\ ls_pc' = "eval"
                /\ UNCHANGED <<current_points, current_score, current_result,
                               refine_round, ls_ret>>
           ELSE IF accept(improved_this_round, best_improvement)
           THEN /\ current_points' = best_candidate.points
                /\ current_score' = best_candidate.score
                /\ current_result' = best_candidate.result
                /\ refine_round' = refine_round + 1
                /\ ls_pc' = "round"
                /\ UNCHANGED <<candidate_points, ls_ret>>
           ELSE /\ ls_pc' = "returned"
                /\ ls_ret' = [kind |-> "return", points |-> current_points,
                              score |-> current_score, result |-> current_result]
                /\ UNCHANGED <<candidate_points, current_points, current_score,
                               current_result, refine_round>>
    /\ UNCHANGED <<seed_points, seed_score, seed_result, skip_first_last, cand,
                   improved_this_round, best_improvement, best_candidate, offers,
                   evaluation_raised>>

\* lines 137-149: evaluate_fn returns or raises for the candidate
Evaluated ==
    /\ ls_pc = "eval"
    /\ \E outcome \in EvaluateOutcomes(candidate_points) :
          LET improvement == improvement_of(outcome.score, current_score)
              better == ~outcome.raised /\ improvement > best_improvement
              offer == offers[Len(offers)]
          IN  /\ best_improvement' = IF better THEN improvement ELSE best_improvement
              /\ best_candidate' =
                    IF better
                    THEN [some |-> TRUE, points |-> candidate_points,
                          score |-> outcome.score, result |-> outcome.result]
                    ELSE best_candidate
              /\ improved_this_round' = (improved_this_round \/ better)
              /\ offers' =
                    [offers EXCEPT ![Len(offers)] =
                        [best |-> IF outcome.raised THEN offer.best
                                  ELSE Max(offer.best, outcome.score),
                         evaluated |-> offer.evaluated + 1]]
              /\ evaluation_raised' = (evaluation_raised \/ outcome.raised)
    /\ cand' = cand + 1
    /\ ls_pc' = "candidates"
    /\ UNCHANGED <<seed_points, seed_score, seed_result, skip_first_last, current_points,
                   current_score, current_result, refine_round, candidate_points, ls_ret>>

-----------------------------------------------------------------------------
(* suggest_service.py: evaluate_shape *)

\* lines 29-31, the ratios in hundredths
MAX_DISTANCE_RATIO == 130

MIN_DISTANCE_RATIO == 50

ES_MAX_ITERATIONS == 4

\* line 129: the default of num_candidates
DEFAULT_NUM_CANDIDATES == 10

\* line 210: sorted(...)[:5]
ALTERNATIVES_SHOWN == 5

\* lines 142-146
WHITELIST ==
    <<"heart", "star", "triangle", "sixty7", "figure8", "lightning", "merlion",
      "banana", "snowflake", "thumbsup", "sword", "toilet">>

\* line 196: name.replace("-", " ").title(), for the names of the whitelist
TitledWhitelist ==
    <<"Heart", "Star", "Triangle", "Sixty7", "Figure8", "Lightning", "Merlion",
      "Banana", "Snowflake", "Thumbsup", "Sword", "Toilet">>

Titled(name) == TitledWhitelist[CHOOSE k \in 1..Len(WHITELIST) : WHITELIST[k] = name]

\* how many shapes of the whitelist the shape database holds at most
MaxShapes == 6

\* Routes of a snap result, as [lng, lat] coordinates in units of 1/111000
\* degree, so that the closure gap in metres is the Euclidean distance of the
\* end points: a closed loop, a route ending 10 m from its start, no route.
ClosedRoute == <<<<0, 0>>, <<0, 500>>, <<0, 0>>>>

OpenRoute == <<<<0, 0>>, <<6, 8>>>>

SgResult(distance_m, failed, total, route) ==
    [raised |-> FALSE,
     result |-> [route |-> route, distance_m |-> distance_m, duration_s |-> 0,
                 failed_segments |-> failed, total_segments |-> total,
                 skipped_points |-> 0, max_detour_ratio |-> 100]]

SgRaise ==
    [raised |-> TRUE,
     result |-> [kind |-> "ValueError", msg |-> "OSRM routing failed for all segments"]]

\* What the awaited snap_to_roads_osrm call gives for the waypoints of a
\* shape.  Around the heart the roads give every kind of answer; around the
\* star the routes have the target length but segments may fail; around the
\* other shapes the call returns a route of the target length that ends 10 m
\* from its start, or raises.
StubOutcomes(shape_name) ==
    IF shape_name = "heart"
    THEN {SgRaise,
          SgResult(0, 0, 10, ClosedRoute),
          SgResult(2000, 0, 10, ClosedRoute),
          SgResult(5000, 0, 10, ClosedRoute),
          SgResult(5000, 2, 10, ClosedRoute),
          SgResult(5000, 3, 10, ClosedRoute),
          SgResult(5000, 0, 10, OpenRoute),
          SgResult(5000, 0, 10, <<>>),
          SgResult(8000, 0, 10, ClosedRoute)}
    ELSE IF shape_name = "star"
    THEN {SgRaise,
          SgResult(5000, 0, 10, ClosedRoute),
          SgResult(5000, 2, 10, ClosedRoute),
          SgResult(5000, 3, 10, ClosedRoute)}
    ELSE {SgRaise, SgResult(5000, 0, 10, OpenRoute)}

\* math.sqrt, for perfect squares
Isqrt(x) == CHOOSE r \in 0..x : r * r = x

\* shape_service.calculate_score(result, target_distance_km, strategy), with
\* strategy["fidelity"] = 1.0: a fraction of 0..100
calculate_score(result, target_m, fidelity) ==
    IF result.route = <<>> THEN <<0, 1>>
    ELSE LET start_pt == result.route[1]
             end_pt == result.route[Len(result.route)]
             gap_m == Isqrt((start_pt[1] - end_pt[1]) * (start_pt[1] - end_pt[1])
                            + (start_pt[2] - end_pt[2]) * (start_pt[2] - end_pt[2]))
             closure == Frac(100, gap_m + 100)
             distance_ratio == Frac(result.distance_m, target_m)
             efficiency ==
                 IF target_m > 0
                 THEN IF FracLeq(<<7, 10>>, distance_ratio)
                         /\ FracLeq(distance_ratio, <<15, 10>>)
                      THEN FracSub(<<1, 1>>,
                                   FracMul(FracAbs(FracSub(<<1, 1>>, distance_ratio)),
                                           <<5, 10>>))
                      ELSE <<3, 10>>
                 ELSE <<5, 10>>
         IN  FracMul(FracAdd(FracAdd(FracMul(<<60, 100>>, fidelity),
                                     FracMul(<<20, 100>>, closure)),
                             FracMul(<<20, 100>>, efficiency)),
                     <<100, 1>>)

\* line 56
es_failed_ratio(result) ==
    Frac(Get(result, "failed_segments", 0), Max(Get(result, "total_segments", 1), 1))

\* lines 121-122: every exception raised in the body is turned into a failed
\* result.  An error is its text and the number shown in it (0 if none).  raised is a history tag: an exception left the coroutine.  (The
\* mutant has no except clause.)
es_uncaught(shape_name, error) ==
    [success |-> FALSE, shape_name |-> shape_name, error |-> error, raised |-> TRUE]

es_caught(shape_name, error) ==
    [success |-> FALSE, shape_name |-> shape_name, error |-> error, raised |-> FALSE]

\* lines 60, 89, 93: a result rejected by a quality check
es_rejected(shape_name, error) ==
    [success |-> FALSE, shape_name |-> shape_name, error |-> error, raised |-> FALSE]

\* (The mutant damps the adjustment by 0.5.)
es_next_scale_factor_half(scale, distance_m, target_m) ==
    LET adjustment == Frac(target_m, distance_m)
        scaled == FracMul(scale, FracAdd(<<1, 1>>,
                                         FracMul(FracSub(adjustment, <<1, 1>>),
                                                 <<5, 10>>)))
        capped == IF FracLess(<<25, 10>>, scaled) THEN <<25, 10>> ELSE scaled
    IN  FracMax(<<3, 10>>, capped)

\* lines 84-85
es_next_scale_factor(scale, distance_m, target_m) ==
    LET adjustment == Frac(target_m, distance_m)
        scaled == FracMul(scale, FracAdd(<<1, 1>>,
                                         FracMul(FracSub(adjustment, <<1, 1>>),
                                                 <<6, 10>>)))
        capped == IF FracLess(<<25, 10>>, scaled) THEN <<25, 10>> ELSE scaled
    IN  FracMax(<<3, 10>>, capped)

\* lines 43-50: the GPS points of a shape at a scale
es_gps_points(shape_name, scale) == [shape |-> shape_name, scale_factor |-> scale]

\* lines 100-107
adjusted_score(score, best_distance_ratio, failed) ==
    LET accuracy == FracSub(<<1, 1>>, FracAbs(FracSub(best_distance_ratio, <<1, 1>>)))
        penalised ==
            IF FracLess(<<MAX_DISTANCE_RATIO, 100>>, best_distance_ratio)
               \/ FracLess(best_distance_ratio, <<MIN_DISTANCE_RATIO, 100>>)
            THEN FracMul(accuracy, <<7, 10>>) ELSE accuracy
        segment_quality == FracSub(<<1, 1>>, failed)
    IN  FracMul(score,
                FracAdd(FracAdd(<<5, 10>>,
                                FracMul(<<25, 100>>, FracMax(<<0, 1>>, penalised))),
                        FracMul(<<25, 100>>, segment_quality)))

\* lines 87-120: what evaluate_shape returns once its loop is over
es_finish(shape_name, svg_path, target_m, best, best_distance_ratio, iterations) ==
    IF ~best.some THEN es_rejected(shape_name, [text |-> "no valid route found", shown |-> 0])
    ELSE IF FracLess(<<15, 10>>, best_distance_ratio)
            \/ FracLess(best_distance_ratio, <<4, 10>>)
    THEN es_rejected(shape_name,
                     [text |-> "distance mismatch",
                      shown |-> RoundHalfEven(10 * best_distance_ratio[1],
                                              best_distance_ratio[2])])
    ELSE [success |-> TRUE,
          shape_name |-> shape_name,
          svg_path |-> svg_path,
          gps_points |-> best.gps_points,
          result |-> best.result,
          score |-> adjusted_score(calculate_score(best.result, target_m, <<1, 1>>),
                                   best_distance_ratio, best.failed_ratio),
          distance_m |-> best.result.distance_m,
          failed_ratio |-> best.failed_ratio,
          scale_factor |-> best.scale_factor,
          iterations |-> iterations,
          raised |-> FALSE]

\* a coroutine of evaluate_shape: suspended in its await of snap_to_roads_osrm
\* (st = "snapping") or finished (st = "done", ret its value)
EsSnapping(shape_name, svg_path, iter, scale, best, best_ratio) ==
    [shape_name |-> shape_name, svg_path |-> svg_path, st |-> "snapping",
     iteration |-> iter, scale_factor |-> scale, best_result |-> best,
     best_distance_ratio |-> best_ratio, ret |-> NoRet]

EsDone(shape_name, svg_path, value) ==
    [shape_name |-> shape_name, svg_path |-> svg_path, st |-> "done",
     iteration |-> 0, scale_factor |-> <<1, 1>>, best_result |-> NoBest,
     best_distance_ratio |-> <<1, 0>>, ret |-> value]

\* lines 33-53: evaluate_shape from its entry to its first await
es_start(shape_name, svg_path) ==
    IF ~svg_path.valid
    THEN EsDone(shape_name, svg_path, es_caught(shape_name, [text |-> "sample_svg_path raised", shown |-> 0]))
    ELSE EsSnapping(shape_name, svg_path, 0, <<1, 1>>, NoBest, <<1, 0>>)

\* lines 53-120: evaluate_shape from the end of an awaited snap call to its
\* next await or to its return
es_resume(task, outcome, target_m) ==
    LET name == task.shape_name
        svg == task.svg_path
        result == outcome.result
        failed == es_failed_ratio(result)
        distance_ratio == Frac(result.distance_m, target_m)
        better == FracLess(FracAbs(FracSub(distance_ratio, <<1, 1>>)),
                           FracAbs(FracSub(task.best_distance_ratio, <<1, 1>>)))
        best_ratio == IF better THEN distance_ratio ELSE task.best_distance_ratio
        best == IF better
                THEN [some |-> TRUE,
                      gps_points |-> es_gps_points(name, task.scale_factor),
                      result |-> result,
                      scale_factor |-> task.scale_factor,
                      failed_ratio |-> failed]
                ELSE task.best_result
    IN  IF outcome.raised THEN EsDone(name, svg, es_caught(name, [text |-> result.msg, shown |-> 0]))
        ELSE IF FracLess(<<25, 100>>, failed)
        THEN EsDone(name, svg,
                    es_rejected(name, [text |-> "too many failed segments",
                                       shown |-> RoundHalfEven(100 * failed[1],
                                                               failed[2])]))
        ELSE IF target_m = 0
        THEN EsDone(name, svg, es_caught(name, [text |-> "float division by zero", shown |-> 0]))
        ELSE IF FracLeq(<<MIN_DISTANCE_RATIO, 100>>, distance_ratio)
                /\ FracLeq(distance_ratio, <<MAX_DISTANCE_RATIO, 100>>)
        THEN EsDone(name, svg,
                    es_finish(name, svg, target_m, best, best_ratio, task.iteration + 1))
        ELSE IF result.distance_m = 0
        THEN EsDone(name, svg, es_caught(name, [text |-> "float division by zero", shown |-> 0]))
        ELSE IF task.iteration + 1 < ES_MAX_ITERATIONS
        THEN EsSnapping(name, svg, task.iteration + 1,
                        es_next_scale_factor(task.scale_factor, result.distance_m,
                                             target_m),
                        best, best_ratio)
        ELSE EsDone(name, svg,
                    es_finish(name, svg, target_m, best, best_ratio, task.iteration + 1))

-----------------------------------------------------------------------------
(* suggest_service.py: suggest_best_route *)

\* The shape database: the names found and, among them, those whose path
\* sample_svg_path cannot parse.  It holds the first shapes of the whitelist,
\* with or without the heart; the star's path may be malformed.
Stores ==
    {[found |-> {WHITELIST[k] : k \in 1..n} \ missing, unparseable |-> bad] :
        n \in 0..MaxShapes, missing \in {{}, {"heart"}}, bad \in {{}, {"star"}}}

\* target distances, in metres
SuggestTargets == {0, 5000}

\* data_store_service.get_shape_by_name(name): the path, or None
get_shape_by_name(name) ==
    IF name \in store.found
    THEN [some |-> TRUE, d |-> name, valid |-> name \notin store.unparseable]
    ELSE [some |-> FALSE]

\* lines 149-155, from whitelist position k on
RECURSIVE AllCandidatesFrom(_)
AllCandidatesFrom(k) ==
    IF k > Len(WHITELIST) THEN <<>>
    ELSE (IF get_shape_by_name(WHITELIST[k]).some
          THEN <<[name |-> WHITELIST[k], svg_path |-> get_shape_by_name(WHITELIST[k])]>>
          ELSE <<>>)
         \o AllCandidatesFrom(k + 1)

\* random.sample(population, k): k distinct elements, in any order
Samples(population, k) ==
    {[j \in 1..k |-> population[f[j]]] :
        f \in {g \in [1..k -> 1..Len(population)] :
                  \A a, b \in 1..k : a # b => g[a] # g[b]}}

\* lines 158-161
CandidateChoices(all_candidates, wanted) ==
    IF Len(all_candidates) > wanted
    THEN Samples(all_candidates, wanted)
    ELSE {all_candidates}

\* lines 173-174
successful_of(rs) == SelectSeq(rs, LAMBDA r : r.success)

failed_of(rs) == SelectSeq(rs, LAMBDA r : ~r.success)

\* line 190: max(successful, key=score), the first of the maxima
max_by_score(rs) ==
    rs[CHOOSE i \in 1..Len(rs) :
           /\ \A j \in 1..Len(rs) : ~FracLess(rs[i].score, rs[j].score)
           /\ \A j \in 1..(i - 1) : FracLess(rs[j].score, rs[i].score)]

\* sorted(successful, key=lambda x: -x["score"]): a stable sort, built by
\* inserting each element after the elements that score at least as much.
\* (The mutant sorts by score, forgetting the minus sign.)
RECURSIVE sorted_by_score_ascending(_)
sorted_by_score_ascending(rs) ==
    IF rs = <<>> THEN <<>>
    ELSE LET front == sorted_by_score_ascending(SubSeq(rs, 1, Len(rs) - 1))
             last == rs[Len(rs)]
             keep == Cardinality({i \in 1..Len(front) :
                                     ~FracLess(last.score, front[i].score)})
         IN  SubSeq(front, 1, keep) \o <<last>> \o SubSeq(front, keep + 1, Len(front))

RECURSIVE sorted_by_score(_)
sorted_by_score(rs) ==
    IF rs = <<>> THEN <<>>
    ELSE LET front == sorted_by_score(SubSeq(rs, 1, Len(rs) - 1))
             last == rs[Len(rs)]
             keep == Cardinality({i \in 1..Len(front) :
                                     ~FracLess(front[i].score, last.score)})
         IN  SubSeq(front, 1, keep) \o <<last>> \o SubSeq(front, keep + 1, Len(front))

\* round(score, 1), as a fraction
round1(score) == Frac(RoundHalfEven(10 * score[1], score[2]), 10)

\* lines 208-211
alternatives_of(rs) ==
    LET ranked == sorted_by_score(rs)
    IN  [j \in 1..Min(ALTERNATIVES_SHOWN, Len(ranked)) |->
            [name |-> ranked[j].shape_name, score |-> round1(ranked[j].score)]]

\* lines 194-213
result_data(best, rs) ==
    [kind |-> "return",
     shape_id |-> best.shape_name,
     shape_name |-> Titled(best.shape_name),
     svg_path |-> best.svg_path,
     original_points |-> <<>>,
     gps_points |-> best.gps_points,
     score |-> best.score,
     algorithm |-> "auto-suggest",
     route |-> best.result.route,
     distance_m |-> best.result.distance_m,
     duration_s |-> best.result.duration_s,
     failed_segments |-> best.result.failed_segments,
     total_segments |-> best.result.total_segments,
     skipped_points |-> best.result.skipped_points,
     max_detour_ratio |-> best.result.max_detour_ratio,
     suggestion_metadata |->
         [candidates_tried |-> Len(rs),
          candidates_passed |-> Len(successful_of(rs)),
          alternatives |-> alternatives_of(successful_of(rs))]]

SuggestInit ==
    /\ sg_pc = "entry"
    /\ store \in Stores
    /\ sg_distance_km \in SuggestTargets
    /\ num_candidates \in {2, DEFAULT_NUM_CANDIDATES}
    /\ candidate_shapes = <<>>
    /\ shape_tasks = <<>>
    /\ shape_results = <<>>
    /\ sg_ret = NoRet

\* lines 148-170: the candidates are chosen, their coroutines are created
\* and, awaited by gather, each runs up to its first await
SgEnter ==
    /\ sg_pc = "entry"
    /\ \E chosen \in CandidateChoices(AllCandidatesFrom(1), num_candidates) :
          /\ candidate_shapes' = chosen
          /\ shape_tasks' = [k \in 1..Len(chosen) |->
                                es_start(chosen[k].name, chosen[k].svg_path)]
    /\ sg_pc' = "gather"
    /\ UNCHANGED <<store, sg_distance_km, num_candidates, shape_results, sg_ret>>

\* lines 53-122: the snap call awaited by coroutine t ends and the coroutine
\* runs to its next await or to its return
EsSnapReturn(t) ==
    /\ sg_pc = "gather"
    /\ shape_tasks[t].st = "snapping"
    /\ \E outcome \in StubOutcomes(shape_tasks[t].shape_name) :
          shape_tasks' = [shape_tasks EXCEPT
                             ![t] = es_resume(shape_tasks[t], outcome, sg_distance_km)]
    /\ UNCHANGED <<sg_pc, store, sg_distance_km, num_candidates, candidate_shapes,
                   shape_results, sg_ret>>

\* lines 170-215: gather returns the values of the coroutines in their order
\* and the best is picked; an exception that left a coroutine leaves gather
\* and suggest_best_route as soon as it is raised
SgGather ==
    /\ sg_pc = "gather"
    /\ IF \E t \in 1..Len(shape_tasks) :
             shape_tasks[t].st = "done" /\ shape_tasks[t].ret.raised
       THEN /\ sg_pc' = "raised"
            /\ sg_ret' = [kind |-> "Exception", msg |-> "raised by evaluate_shape"]
            /\ UNCHANGED shape_results
       ELSE /\ \A t \in 1..Len(shape_tasks) : shape_tasks[t].st = "done"
            /\ LET rs == [t \in 1..Len(shape_tasks) |-> shape_tasks[t].ret]
               IN  /\ shape_results' = rs
                   /\ IF successful_of(rs) = <<>>
                      THEN /\ sg_pc' = "raised"
                           /\ sg_ret' = [kind |-> "ValueError",
                                         msg |-> <<"Could not find a suitable route",
                                                   Len(rs)>>]
                      ELSE /\ sg_pc' = "returned"
                           /\ sg_ret' = result_data(max_by_score(successful_of(rs)), rs)
    /\ UNCHANGED <<store, sg_distance_km, num_candidates, candidate_shapes, shape_tasks>>

-----------------------------------------------------------------------------
(* Specifications: one per component, the other components at rest *)

OsrmIdle ==
    /\ pc = "idle"
    /\ gps_points = <<>>
    /\ original_num_points = 0
    /\ max_skips_allowed = 0
    /\ pass = 1
    /\ segments = <<>>
    /\ new_segments = <<>>
    /\ results = <<>>
    /\ batch_start = 0
    /\ tasks = <<>>
    /\ completed = <<>>
    /\ outlier_indices = <<>>
    /\ max_detour_ratio = <<1, 1>>
    /\ skipped_points = 0
    /\ ret = NoRet

ScorerIdle ==
    /\ target_distance = 0
    /\ evaluation = NoEvaluation
    /\ previous = NoEvaluation

MbIdle ==
    /\ mb_pc = "idle"
    /\ mb_points = <<>>
    /\ chunks = <<>>
    /\ chunk_i = 0
    /\ idx = 0
    /\ all_coords = <<>>
    /\ total_distance = 0
    /\ requested = <<>>
    /\ error_replies = 0
    /\ mb_ret = NoRet

ScalingIdle ==
    /\ rs_pc = "idle"
    /\ distance_km = 0
    /\ iteration = 0
    /\ scale_factor = <<1, 1>>
    /\ best_result = NoBest
    /\ best_distance_diff = <<1, 0>>
    /\ snap_calls = <<>>
    /\ rs_ret = NoRet

RefineIdle ==
    /\ ls_pc = "idle"
    /\ seed_points = <<>>
    /\ seed_score = 0
    /\ seed_result = [points |-> <<>>, score |-> 0]
    /\ skip_first_last = TRUE
    /\ current_points = <<>>
    /\ current_score = 0
    /\ current_result = [points |-> <<>>, score |-> 0]
    /\ refine_round = 0
    /\ cand = 0
    /\ candidate_points = <<>>
    /\ improved_this_round = FALSE
    /\ best_improvement = 0
    /\ best_candidate = NoCandidate
    /\ offers = <<>>
    /\ evaluation_raised = FALSE
    /\ ls_ret = NoRet

SuggestIdle ==
    /\ sg_pc = "idle"
    /\ store = [found |-> {}, unparseable |-> {}]
    /\ sg_distance_km = 0
    /\ num_candidates = 0
    /\ candidate_shapes = <<>>
    /\ shape_tasks = <<>>
    /\ shape_results = <<>>
    /\ sg_ret = NoRet

\* snap_to_roads_osrm
not_osrm == <<sc_vars, mb_vars, rs_vars, ls_vars, sg_vars>>

Init == OsrmInit /\ ScorerIdle /\ MbIdle /\ ScalingIdle /\ RefineIdle /\ SuggestIdle

Next ==
    \/ Enter /\ UNCHANGED not_osrm
    \/ StartBatch /\ UNCHANGED not_osrm
    \/ \E j \in 1..Len(tasks) : Issue(j) /\ UNCHANGED not_osrm
    \/ \E j \in 1..Len(tasks) : Respond(j) /\ UNCHANGED not_osrm
    \/ \E j \in 1..Len(tasks) : Wake(j) /\ UNCHANGED not_osrm
    \/ GatherReturn /\ UNCHANGED not_osrm
    \/ Detect /\ UNCHANGED not_osrm
    \/ Rerouted /\ UNCHANGED not_osrm
    \/ Combine /\ UNCHANGED not_osrm

Spec == Init /\ [][Next]_vars

\* the route scorer
ScorerSpecInit ==
    ScorerInit /\ OsrmIdle /\ MbIdle /\ ScalingIdle /\ RefineIdle /\ SuggestIdle

ScorerSpecNext == Evaluate /\ UNCHANGED <<osrm_vars, mb_vars, rs_vars, ls_vars, sg_vars>>

SpecScorer == ScorerSpecInit /\ [][ScorerSpecNext]_vars

\* snap_to_roads
not_mb == <<osrm_vars, sc_vars, rs_vars, ls_vars, sg_vars>>

ChunkedInit == MbInit /\ OsrmIdle /\ ScorerIdle /\ ScalingIdle /\ RefineIdle /\ SuggestIdle

ChunkedNext ==
    \/ MbEnter /\ UNCHANGED not_mb
    \/ MbSingleReply /\ UNCHANGED not_mb
    \/ ChunkStep /\ UNCHANGED not_mb
    \/ MbCall /\ UNCHANGED not_mb
    \/ MbChunkReply /\ UNCHANGED not_mb

SpecChunked == ChunkedInit /\ [][ChunkedNext]_vars

\* route_with_scaling
not_rs == <<osrm_vars, sc_vars, mb_vars, ls_vars, sg_vars>>

ScalingSpecInit ==
    ScalingInit /\ OsrmIdle /\ ScorerIdle /\ MbIdle /\ RefineIdle /\ SuggestIdle

ScalingNext ==
    \/ SnapCall /\ UNCHANGED not_rs
    \/ SnapReturn /\ UNCHANGED not_rs
    \/ Validate /\ UNCHANGED not_rs

SpecScaling == ScalingSpecInit /\ [][ScalingNext]_vars

\* local_search_refine
not_ls == <<osrm_vars, sc_vars, mb_vars, rs_vars, sg_vars>>

RefineSpecInit ==
    RefineInit /\ OsrmIdle /\ ScorerIdle /\ MbIdle /\ ScalingIdle /\ SuggestIdle

RefineNext ==
    \/ BeginRound /\ UNCHANGED not_ls
    \/ Propose /\ UNCHANGED not_ls
    \/ Evaluated /\ UNCHANGED not_ls

SpecRefine == RefineSpecInit /\ [][RefineNext]_vars

\* suggest_best_route
not_sg == <<osrm_vars, sc_vars, mb_vars, rs_vars, ls_vars>>

SuggestSpecInit ==
    SuggestInit /\ OsrmIdle /\ ScorerIdle /\ MbIdle /\ ScalingIdle /\ RefineIdle

SuggestNext ==
    \/ SgEnter /\ UNCHANGED not_sg
    \/ \E t \in 1..Len(shape_tasks) : EsSnapReturn(t) /\ UNCHANGED not_sg
    \/ SgGather /\ UNCHANGED not_sg

SpecSuggest == SuggestSpecInit /\ [][SuggestNext]_vars

-----------------------------------------------------------------------------
(* Claims about snap_to_roads_osrm, checked under Spec *)

Terminal == pc \in {"returned", "raised"}

FailedResults == {i \in 1..Len(results) : ~results[i].some}

InFlight == {j \in 1..Len(tasks) : tasks[j].st = "inflight"}

\* the unsnapped GeoJSON coordinate [lng, lat] of a GPS point
RawCoord(p) == <<p[2], p[1]>>

IsRawCoord(c) == c[1] = Lng0

RECURSIVE SumOver(_, _)
SumOver(f, S) ==
    IF S = {} THEN 0
    ELSE LET x == CHOOSE y \in S : TRUE IN f[x] + SumOver(f, S \ {x})

\* C1: every result returned by snap_to_roads_osrm has
\* 0 <= failed_segments <= total_segments, with or without a skip pass.
C1_FailedWithinTotal ==
    pc = "returned" =>
        /\ 0 <= ret.failed_segments
        /\ ret.failed_segments <= ret.total_segments

\* a result returned after a skip pass in which every segment failed
C1_Witness ==
    /\ pc = "returned"
    /\ pass = 2
    /\ ret.skipped_points > 0
    /\ ret.failed_segments = ret.total_segments

\* C2: snap_to_roads_osrm never returns an empty polyline; fewer than 2
\* waypoints are rejected with an error; with 2 or more waypoints the call
\* raises exactly when the assembled polyline is empty, which takes every
\* segment to be routed with a geometry that adds no point: it returns, on
\* straight-line fallbacks, when every fetch failed.
C2_NoEmptyPolyline ==
    /\ pc = "returned" => ret.route # <<>> /\ Len(gps_points) >= 2
    /\ (pc # "entry" /\ Len(gps_points) < 2) => pc = "raised" /\ ret.kind = "ValueError"
    /\ (pc = "raised" /\ Len(gps_points) >= 2) =>
           /\ ret.kind = "ValueError"
           /\ Len(results) = Len(segments)
           /\ \A i \in 1..Len(results) :
                 /\ results[i].some
                 /\ Len(results[i].coordinates) <= (IF i = 1 THEN 0 ELSE 1)
    /\ (Terminal /\ Len(gps_points) >= 2 /\ FailedResults # {}) => pc = "returned"

\* every fetch of the call failed and the call returned the straight lines
C2_Witness ==
    /\ pc = "returned"
    /\ Len(results) >= 2
    /\ FailedResults = 1..Len(results)
    /\ Len(ret.route) = Len(gps_points)

\* C3: whatever the order in which the concurrent requests complete, the
\* result at position i of results is the result of the request for segment
\* i of the list being routed.
C3_ResultsInSegmentOrder ==
    /\ Len(results) <= Len(RouteList)
    /\ \A i \in 1..Len(results) : results[i].req = RouteList[i]

\* a call returned whose last batch completed out of order
C3_Witness ==
    /\ pc = "returned"
    /\ Len(completed) >= 2
    /\ completed[1] > completed[2]
    /\ \E i \in 1..Len(results) : results[i].some

\* C4: at most MAX_CONCURRENT requests are in flight at any moment of either
\* pass, and no task of a later batch exists before every task of the
\* earlier batches has completed.
C4_BoundedInFlight ==
    /\ Cardinality(InFlight) <= MAX_CONCURRENT
    /\ \A i, j \in 1..Len(tasks) :
          ((i - 1) \div MAX_CONCURRENT) < ((j - 1) \div MAX_CONCURRENT)
              => tasks[i].st = "done"

\* a full batch in flight after an earlier batch
C4_Witness ==
    /\ batch_start > 0
    /\ Cardinality(InFlight) = MAX_CONCURRENT

\* the polyline's unsnapped coordinates that the failed segments from Python
\* index i on account for: the end of each, and the start of segment 0
RECURSIVE FallbackPointsFrom(_)
FallbackPointsFrom(i) ==
    IF i >= Len(results) THEN <<>>
    ELSE (IF results[i + 1].some THEN <<>>
          ELSE (IF i = 0 THEN <<RawCoord(segments[1][1])>> ELSE <<>>)
               \o <<RawCoord(segments[i + 1][2])>>)
         \o FallbackPointsFrom(i + 1)

\* C5 as stated: a failed fetch never aborts the call, every segment is
\* requested and assembled, failed_segments counts the failed segments,
\* distance_m and duration_s sum the routed segments, and every failed
\* segment puts the straight line between its two endpoints on the polyline.
C5_Claimed_StraightLineBetweenEndpoints ==
    pc = "returned" =>
        \A i \in FailedResults :
            \E q \in 1..(Len(ret.route) - 1) :
                /\ ret.route[q] = RawCoord(segments[i][1])
                /\ ret.route[q + 1] = RawCoord(segments[i][2])

\* C5 as amended: as stated, but a failed segment puts on the polyline its
\* end waypoint, and its start waypoint only when it is segment 0: the
\* straight line runs from the polyline's previous point.
C5_FailedSegmentsFallBack ==
    /\ \A j \in 1..Len(tasks) :
          tasks[j].st = "done" =>
              /\ ~tasks[j].res.raised
              /\ tasks[j].fetch_failed <=> ~tasks[j].res.some
    /\ (Terminal /\ Len(gps_points) >= 2 /\ FailedResults # {}) => pc = "returned"
    /\ pc = "returned" =>
          /\ Len(results) = Len(segments)
          /\ \A j \in 1..Len(tasks) : tasks[j].st = "done"
          /\ ret.failed_segments = Cardinality(FailedResults)
          /\ ret.distance_m =
                 SumOver([i \in 1..Len(results) |-> results[i].distance_m],
                         (1..Len(results)) \ FailedResults)
          /\ ret.duration_s =
                 SumOver([i \in 1..Len(results) |-> results[i].duration_s],
                         (1..Len(results)) \ FailedResults)
          /\ SelectSeq(ret.route, IsRawCoord) = FallbackPointsFrom(0)

\* a call returned with a failed segment between two routed ones
C5_Witness ==
    /\ pc = "returned"
    /\ Len(results) >= 3
    /\ results[1].some
    /\ ~results[2].some
    /\ results[3].some
    /\ ret.failed_segments = 1
    /\ ret.distance_m > 0

-----------------------------------------------------------------------------
(* Claims about the scorer, checked under SpecScorer *)

\* |distance_m / target - 1| as the integer |distance_m - target|
Off(distance_m) == Abs(distance_m - target_distance)

\* C7: the distance sub-score is 1 at a ratio of 1, never negative, and of
\* two ratios the one further from 1 never scores higher.
C7_DistanceScoreMonotone ==
    (evaluation.made /\ target_distance > 0) =>
        /\ evaluation.result.distance_m = target_distance
               => evaluation.distance_score = <<1, 1>>
        /\ evaluation.distance_score[1] >= 0
        /\ evaluation.distance_score[2] > 0
        /\ (previous.made /\ Off(previous.distance_m) <= Off(evaluation.result.distance_m))
               => FracLeq(evaluation.distance_score, previous.distance_score)

\* a ratio of 1.3 scored, then one of 1.31, across the band boundary
C7_Witness ==
    /\ evaluation.made
    /\ previous.made
    /\ target_distance = 5000
    /\ previous.distance_m = 6500
    /\ evaluation.result.distance_m = 6550
    /\ FracLess(evaluation.distance_score, previous.distance_score)

\* C8: is_route_acceptable rejects exactly when failed/total > 0.25, or the
\* distance ratio is outside [0.7, 1.5], or the score is below 40; the
\* reason names the first of these that holds; 5 failed of 10 gives
\* "too many failed segments (50%)"; a failed ratio of 0.25 is no rejection.
C8_AcceptableVerdict ==
    (evaluation.made /\ target_distance > 0) =>
        LET r == evaluation.result
            a == evaluation.acceptable
            failed == 100 * r.failed_segments > 25 * r.total_segments
            long == 10 * r.distance_m > 15 * target_distance
            short == 10 * r.distance_m < 7 * target_distance
            low == evaluation.score < 400
        IN  /\ a.raised = ""
            /\ a.ok <=> ~(failed \/ long \/ short \/ low)
            /\ a.reason = (IF failed THEN "too many failed segments"
                           ELSE IF long THEN "route too long"
                           ELSE IF short THEN "route too short"
                           ELSE IF low THEN "quality too low"
                           ELSE "")
            /\ (r.failed_segments = 5 /\ r.total_segments = 10)
                   => a = Rejected("too many failed segments", 50)
            /\ (4 * r.failed_segments = r.total_segments /\ ~long /\ ~short /\ ~low)
                   => a.ok

\* 5 failed segments of 10 with a perfect distance are rejected
C8_Witness ==
    /\ evaluation.made
    /\ target_distance = 5000
    /\ evaluation.result.distance_m = 5000
    /\ evaluation.result.failed_segments = 5
    /\ evaluation.result.total_segments = 10
    /\ ~evaluation.acceptable.ok
    /\ evaluation.acceptable.reason = "too many failed segments"
    /\ evaluation.acceptable.shown = 50


\* the straight line through (x1, y1) and (x2, y2), at x
Between(x, x1, y1, x2, y2) ==
    FracAdd(y1, FracMul(FracSub(y2, y1),
                        Frac(FracSub(x, x1)[1] * FracSub(x2, x1)[2],
                             FracSub(x, x1)[2] * FracSub(x2, x1)[1])))

\* the distance sub-score as claimed: 1.0 on [0.9, 1.1], falling in a straight
\* line to 0.5 at 0.7 and 1.3, further to 0.2 at 0.5 and 1.5, 0.2 outside
ClaimedDistanceScore(r) ==
    IF FracLess(r, <<5, 10>>) \/ FracLess(<<15, 10>>, r) THEN <<2, 10>>
    ELSE IF FracLess(r, <<7, 10>>) THEN Between(r, <<5, 10>>, <<2, 10>>, <<7, 10>>, <<5, 10>>)
    ELSE IF FracLess(r, <<9, 10>>) THEN Between(r, <<7, 10>>, <<5, 10>>, <<9, 10>>, <<1, 1>>)
    ELSE IF FracLeq(r, <<11, 10>>) THEN <<1, 1>>
    ELSE IF FracLeq(r, <<13, 10>>) THEN Between(r, <<11, 10>>, <<1, 1>>, <<13, 10>>, <<5, 10>>)
    ELSE Between(r, <<13, 10>>, <<5, 10>>, <<15, 10>>, <<2, 10>>)

\* C22 as claimed: the distance sub-score is 1.0 on [0.9, 1.1], 0.5 at the
\* ratios 0.7 and 1.3, 0.2 at the ratios 0.5 and 1.5 and outside [0.5, 1.5],
\* and linear in between.
C22_Claimed_DecaysToHalfAndFifth ==
    (evaluation.made /\ target_distance > 0) =>
        evaluation.distance_score =
            ClaimedDistanceScore(Frac(evaluation.result.distance_m, target_distance))

\* C22, amended: for the distance ratio r the sub-score is 1.0 on [0.9, 1.1],
\* 1 - 0.5 * |r - 1| on the rest of [0.7, 1.3] (0.85 at 0.7 and 1.3),
\* 0.5 - 0.25 * |r - 1| on the rest of [0.5, 1.5] (0.375 at 0.5 and 1.5),
\* and 0.2 outside [0.5, 1.5].
C22_DistanceScoreBands ==
    (evaluation.made /\ target_distance > 0) =>
        LET t == target_distance
            off == Abs(evaluation.result.distance_m - t)
            s == evaluation.distance_score
        IN  /\ 10 * off <= t => s = <<1, 1>>
            /\ (t < 10 * off /\ 10 * off <= 3 * t) => s[1] * 2 * t = (2 * t - off) * s[2]
            /\ (3 * t < 10 * off /\ 2 * off <= t) => s[1] * 4 * t = (2 * t - off) * s[2]
            /\ t < 2 * off => s = <<1, 5>>
            /\ 10 * off = 3 * t => s = <<17, 20>>
            /\ 2 * off = t => s = <<3, 8>>

\* the ratio 1.3 scored 0.85 after the ratio 1.5 had scored 0.375
C22_Witness ==
    /\ evaluation.made
    /\ previous.made
    /\ target_distance = 5000
    /\ previous.distance_m = 7500
    /\ previous.distance_score = <<3, 8>>
    /\ evaluation.result.distance_m = 6500
    /\ evaluation.distance_score = <<17, 20>>


\* a result within the failure ceiling and the distance band
WithinCeilingAndBand(r) ==
    /\ 100 * r.failed_segments <= MAX_FAILED_SEGMENT_RATIO * Max(r.total_segments, 1)
    /\ TARGET_RATIO_MIN * target_distance <= 100 * r.distance_m
    /\ 100 * r.distance_m <= TARGET_RATIO_MAX * target_distance

\* C27: for a positive target every result with failed/total <= 0.25 and a
\* distance ratio within [0.7, 1.5] scores at least 40 and is accepted, so
\* is_route_acceptable never gives the reason "quality too low".
C27_ScoreCheckNeverRejects ==
    evaluation.made =>
        /\ (target_distance > 0 /\ WithinCeilingAndBand(evaluation.result)) =>
              /\ evaluation.score >= 10 * MIN_ACCEPTABLE_SCORE
              /\ evaluation.acceptable.ok
        /\ evaluation.acceptable.reason # "quality too low"

\* the lowest scores of the band: ratio 1.5, a quarter of the segments
\* failed, and a route whose ends are 20 km apart
C27_Witness ==
    /\ evaluation.made
    /\ target_distance = 5000
    /\ evaluation.result.distance_m = 7500
    /\ 4 * evaluation.result.failed_segments = evaluation.result.total_segments
    /\ closure_score(evaluation.result) = <<1, 201>>
    /\ evaluation.score = 451
    /\ evaluation.acceptable.ok

-----------------------------------------------------------------------------
(* Claims about snap_to_roads, checked under SpecChunked *)

\* C6: the windows are requested one at a time in their order, and an error
\* reply for a window makes the call raise: no later window is requested and
\* neither geometry nor distance of the earlier windows is returned.
C6_ChunkErrorAborts ==
    /\ Len(mb_points) > MAPBOX_MAX_COORDS =>
          /\ Len(requested) = idx + (IF mb_pc \in {"awaiting", "raised"} THEN 1 ELSE 0)
          /\ Len(requested) <= Len(chunks)
          /\ \A k \in 1..Len(requested) : requested[k] = chunks[k]
    /\ error_replies > 0 =>
          /\ error_replies = 1
          /\ mb_pc = "raised"
          /\ mb_ret.kind \notin {"none", "return"}
          /\ DOMAIN mb_ret = {"kind", "msg"}
    /\ mb_pc = "returned" => Len(requested) = Max(Len(chunks), 1)

\* the second of three windows got an error reply after the first was routed
C6_Witness ==
    /\ mb_pc = "raised"
    /\ Len(chunks) = 3
    /\ Len(requested) = 2
    /\ all_coords # <<>>
    /\ total_distance > 0
    /\ mb_ret.kind = "ValueError"


\* the windows made so far, joined with the first point of every window after
\* the first dropped
RECURSIVE JoinedWindows(_)
JoinedWindows(k) ==
    IF k = 0 THEN <<>>
    ELSE JoinedWindows(k - 1) \o (IF k = 1 THEN chunks[1] ELSE Tail(chunks[k]))

\* the chunking loop of lines 67-72 is over
ChunkingDone ==
    /\ Len(mb_points) > MAPBOX_MAX_COORDS
    /\ mb_pc \in {"calling", "awaiting", "returned", "raised"}

\* C21: for more than 25 waypoints the chunking loop ends (its index grows at
\* every turn and stays below the number of points), every window has
\* between 2 and 25 points, the last point of a window is the first of the
\* next, and the windows joined without the first point of each window after
\* the first are the input, in order, nothing lost and nothing twice.
C21_WindowsCoverInput ==
    /\ [](\A k \in 1..Len(chunks) :
             /\ 2 <= Len(chunks[k])
             /\ Len(chunks[k]) <= 25
             /\ k > 1 => chunks[k][1] = chunks[k - 1][Len(chunks[k - 1])])
    /\ [](mb_pc = "chunking" =>
             /\ chunk_i < Len(mb_points) - 1
             /\ JoinedWindows(Len(chunks)) = SubSeq(mb_points, 1, Len(JoinedWindows(Len(chunks))))
             /\ chunks # <<>> => Len(JoinedWindows(Len(chunks))) = chunk_i + 1)
    /\ [](ChunkingDone =>
             /\ Len(chunks) >= 2
             /\ JoinedWindows(Len(chunks)) = mb_points)
    /\ [][mb_pc = "chunking" =>
             (/\ Len(chunks') = Len(chunks) + 1
              /\ chunk_i' > chunk_i)]_vars

\* fifty-one waypoints were cut into three windows, the last of three points
C21_Witness ==
    /\ ChunkingDone
    /\ Len(mb_points) = 51
    /\ Len(chunks) = 3
    /\ Len(chunks[1]) = 25
    /\ Len(chunks[3]) = 3
    /\ mb_pc = "returned"

-----------------------------------------------------------------------------
(* Claims about the outlier waypoints of snap_to_roads_osrm, checked under Spec *)

\* the first routing pass is complete and the outlier detection is about to run
FirstPassDone == pc = "route" /\ pass = 1 /\ batch_start >= Len(segments)

\* segment i (1-based) of the first pass was routed with a detour_ratio above
\* the threshold: routed distance / max(straight-line distance, floor) > 10
DetourExceeded(i) ==
    /\ results[i].some
    /\ LET straight == haversine_distance_m(segments[i][1][1], segments[i][1][2],
                                            segments[i][2][1], segments[i][2][2])
           floored == IF straight < MIN_STRAIGHT_LINE_M
                      THEN MIN_STRAIGHT_LINE_M ELSE straight
       IN  results[i].distance_m > DETOUR_THRESHOLD * floored

\* C19 as claimed: the outlier detection flags the terminal waypoint (index i
\* of gps_points, counted from 0) of every routed segment i whose detour_ratio
\* exceeds the threshold.
C19_Claimed_EveryTerminalFlagged ==
    [][FirstPassDone =>
          (\A i \in 1..Len(results) :
              DetourExceeded(i) => i \in SeqToSet(outlier_indices'))]_vars

\* C19, amended: the outlier detection flags exactly the terminal waypoints of
\* the routed segments whose detour_ratio exceeds the threshold, except the
\* last waypoint of the input, which is never flagged; failed segments flag
\* nothing, and the flagged indices are listed once each in ascending order.
C19_TerminalFlaggedUnlessLast ==
    [][FirstPassDone =>
          (/\ SeqToSet(outlier_indices') =
                {i \in 1..Len(results) : DetourExceeded(i) /\ i # Len(gps_points) - 1}
           /\ \A i \in 1..Len(results) :
                ~results[i].some => i \notin SeqToSet(outlier_indices')
           /\ \A j \in 1..(Len(outlier_indices') - 1) :
                outlier_indices'[j] < outlier_indices'[j + 1])]_vars

\* the detection ran on a first pass with a failed segment, flagged a waypoint
\* and left the last waypoint unflagged although its segment exceeded the
\* threshold
C19_Witness ==
    /\ pc = "combine"
    /\ pass = 1
    /\ outlier_indices # <<>>
    /\ \E i \in 1..Len(results) : ~results[i].some
    /\ DetourExceeded(Len(results))
    /\ Len(results) = Len(gps_points) - 1
    /\ Len(results) \notin SeqToSet(outlier_indices)

\* the outlier detection and the skip decision have run
DetectionDone == pass = 2 \/ pc = "combine" \/ (pc \in {"returned", "raised"} /\ segments # <<>>)

\* at least one waypoint is flagged and at most 15% of the input waypoints are
WithinSkipAllowance ==
    /\ outlier_indices # <<>>
    /\ 100 * Len(outlier_indices) <= MAX_SKIP_RATIO * Len(gps_points)

\* the indices (from 1) of the waypoints that are not flagged
KeptIndices == {k \in 1..Len(gps_points) : (k - 1) \notin SeqToSet(outlier_indices)}

\* the waypoints that are not flagged, in their order
KeptPoints ==
    [j \in 1..Cardinality(KeptIndices) |->
        gps_points[CHOOSE k \in KeptIndices :
                       Cardinality({m \in KeptIndices : m < k}) = j - 1]]

\* C20: once the first pass is over, if at least one waypoint is flagged and
\* at most 15% of the input waypoints are, exactly the flagged waypoints are
\* removed and the reduced sequence is routed once more, each of its segments
\* requested once, with no second detection; otherwise the results of the
\* first pass are used unchanged and skipped_points is 0.
C20_SkipOrKeep ==
    /\ [](DetectionDone =>
            IF WithinSkipAllowance
            THEN /\ pass = 2
                 /\ skipped_points = Len(outlier_indices)
                 /\ new_segments = SegmentPairs(KeptPoints)
                 /\ Len(tasks) <= Len(new_segments)
                 /\ \A j \in 1..Len(tasks) : tasks[j].req = new_segments[j]
                 /\ pc \in {"combine", "returned", "raised"} =>
                       /\ segments = new_segments
                       /\ Len(results) = Len(new_segments)
                       /\ \A j \in 1..Len(results) : results[j] = tasks[j].res
            ELSE /\ pass = 1
                 /\ skipped_points = 0
                 /\ new_segments = <<>>
                 /\ segments = SegmentPairs(gps_points)
                 /\ Len(results) = Len(segments)
                 /\ \A j \in 1..Len(results) : results[j].req = segments[j])
    /\ [](pc = "returned" => ret.skipped_points = skipped_points)
    /\ [][FirstPassDone /\ pass' = 1 => results' = results]_vars
    /\ [][DetectionDone => (outlier_indices' = outlier_indices /\ pass' = pass)]_vars
    /\ [][(pc \in {"combine", "returned", "raised"}) => results' = results]_vars

\* a call returned after one flagged waypoint of seven was removed and the six
\* remaining waypoints were routed again
C20_Witness ==
    /\ pc = "returned"
    /\ pass = 2
    /\ Len(outlier_indices) = 1
    /\ ret.skipped_points = 1
    /\ Len(results) = Len(gps_points) - 2
    /\ ret.total_segments = Len(gps_points) - 2


\* C29: every result of snap_to_roads_osrm on n >= 2 waypoints has
\* total_segments + skipped_points = n - 1 and skipped_points <= 15% of n,
\* and the waypoints routed begin with the first and end with the last input
\* waypoint: neither is ever removed.
C29_ResultAccountsForWaypoints ==
    /\ pc = "returned" =>
          LET n == Len(gps_points)
          IN  /\ n >= 2
              /\ ret.total_segments + ret.skipped_points = n - 1
              /\ ret.skipped_points >= 0
              /\ 100 * ret.skipped_points <= MAX_SKIP_RATIO * n
              /\ ret.total_segments = Len(segments)
              /\ segments[1][1] = gps_points[1]
              /\ segments[Len(segments)][2] = gps_points[n]
              /\ ret.failed_segments <= ret.total_segments
    /\ \A j \in 1..Len(outlier_indices) :
          0 < outlier_indices[j] /\ outlier_indices[j] < Len(gps_points) - 1

\* a result for MaxPoints waypoints of which one was skipped, although the
\* segment into the last waypoint exceeded the detour threshold too
C29_Witness ==
    /\ pc = "returned"
    /\ Len(gps_points) = MaxPoints
    /\ ret.skipped_points = 1
    /\ ret.total_segments = MaxPoints - 2
    /\ ret.failed_segments > 0

-----------------------------------------------------------------------------
(* Claims about route_with_scaling, checked under SpecScaling *)

\* the snap calls made so far all returned a result
Returned(k) == ~snap_calls[k].outcome.raised

\* every snap call so far returned the target distance and no failed segment
AlwaysExact ==
    \A k \in 1..Len(snap_calls) :
        /\ Returned(k)
        /\ snap_calls[k].outcome.result.distance_m = distance_km
        /\ snap_calls[k].outcome.result.failed_segments = 0

\* every snap call so far returned three times the target distance
AlwaysTriple ==
    \A k \in 1..Len(snap_calls) :
        /\ Returned(k)
        /\ snap_calls[k].outcome.result.distance_m = 3 * distance_km

\* C9: for a positive target, when every snap call returns exactly the target
\* distance with no failed segment, the road snapper is called once, the
\* scale_factor stays 1.0, the call never raises, and the candidate returned
\* has distance_ratio 1.0.
C9_ExactStubConvergesAtOnce ==
    (distance_km > 0 /\ AlwaysExact) =>
        /\ Len(snap_calls) <= 1
        /\ iteration = 0
        /\ scale_factor = <<1, 1>>
        /\ rs_pc # "raised"
        /\ (rs_pc \in {"loop", "snapping"}) <=> (snap_calls = <<>>)
        /\ rs_pc = "returned" =>
              /\ Len(snap_calls) = 1
              /\ rs_ret.kind = "return"
              /\ rs_ret.value.distance_ratio = <<1, 1>>
              /\ rs_ret.value.scale_factor = <<1, 1>>
              /\ rs_ret.value.result = snap_calls[1].outcome.result

\* the exact stub's first result has been returned
C9_Witness ==
    /\ distance_km > 0
    /\ AlwaysExact
    /\ rs_pc = "returned"
    /\ Len(snap_calls) = 1

\* C10: when every snap call returns three times the target distance, the
\* scale_factor of each iteration is strictly below that of the iteration
\* before, and every value scale_factor takes lies within [0.3, 2.5].
C10_TripleStubScaleDecreases ==
    AlwaysTriple =>
        /\ \A k \in 1..Len(snap_calls) :
              /\ FracLeq(<<SCALE_MIN, 10>>, snap_calls[k].scale_factor)
              /\ FracLeq(snap_calls[k].scale_factor, <<SCALE_MAX, 10>>)
              /\ k > 1 => FracLess(snap_calls[k].scale_factor, snap_calls[k - 1].scale_factor)
        /\ FracLeq(<<SCALE_MIN, 10>>, scale_factor)
        /\ FracLeq(scale_factor, <<SCALE_MAX, 10>>)
        /\ (rs_pc \in {"loop", "snapping"} /\ snap_calls # <<>>) =>
              FracLess(scale_factor, snap_calls[Len(snap_calls)].scale_factor)
        /\ Len(snap_calls) <= MAX_ITERATIONS

\* the triple stub has used up the four iterations
C10_Witness ==
    /\ distance_km > 0
    /\ AlwaysTriple
    /\ Len(snap_calls) = MAX_ITERATIONS
    /\ \A k \in 1..MAX_ITERATIONS :
          snap_calls[k].outcome.result.failed_segments = 0
    /\ snap_calls[MAX_ITERATIONS].scale_factor = <<SCALE_MIN, 10>>
    /\ rs_pc = "raised"

\* the k-th snap call returned a result whose failed-segment ratio is above
\* the ceiling of 0.25
PoorCoverage(k) ==
    /\ Returned(k)
    /\ 100 * snap_calls[k].outcome.result.failed_segments
          > MAX_FAILED_SEGMENT_RATIO * Max(snap_calls[k].outcome.result.total_segments, 1)

\* C11: a snap result with more than 25% failed segments ends the call in
\* that iteration: ValueError is raised, the road snapper is not called
\* again and nothing is returned, whatever best candidate was tracked; and
\* the poor-coverage error is raised for no other result.
C11_PoorCoverageFailsAtOnce ==
    /\ \A k \in 1..Len(snap_calls) :
          PoorCoverage(k) =>
              /\ k = Len(snap_calls)
              /\ rs_pc = "raised"
              /\ rs_ret = [kind |-> "ValueError", msg |-> "Location has poor road coverage"]
    /\ (rs_pc = "raised" /\ rs_ret = [kind |-> "ValueError",
                                      msg |-> "Location has poor road coverage"])
          => PoorCoverage(Len(snap_calls))

\* a later iteration had poor coverage after an earlier one left a candidate
C11_Witness ==
    /\ Len(snap_calls) >= 2
    /\ PoorCoverage(Len(snap_calls))
    /\ best_result.some
    /\ rs_pc = "raised"

\* the k-th snap call returned a result that passed the coverage check and
\* whose distance_ratio lies within [0.7, 1.5]
ConvergedAt(k) ==
    /\ Returned(k)
    /\ ~PoorCoverage(k)
    /\ distance_km > 0
    /\ TARGET_RATIO_MIN * distance_km <= 100 * snap_calls[k].outcome.result.distance_m
    /\ 100 * snap_calls[k].outcome.result.distance_m <= TARGET_RATIO_MAX * distance_km

\* C12 as stated: an iteration whose distance_ratio lies within [0.7, 1.5]
\* is the last one, and the call then returns that iteration's candidate and
\* never raises.
C12_Claimed_ConvergedIsReturned ==
    \A k \in 1..Len(snap_calls) :
        ConvergedAt(k) =>
            /\ k = Len(snap_calls)
            /\ rs_pc \in {"validate", "returned"}
            /\ rs_pc = "returned" => rs_ret.value.result = snap_calls[k].outcome.result

\* the call raised after an iteration had converged: the candidate validated
\* is the one of an earlier iteration, nearer to the target but outside the band
C12_Witness ==
    /\ snap_calls # <<>>
    /\ ConvergedAt(Len(snap_calls))
    /\ rs_pc = "raised"
    /\ best_result.some
    /\ best_result.result # snap_calls[Len(snap_calls)].outcome.result

ScalingTerminal == rs_pc \in {"returned", "raised"}

\* the snap calls begun so far
SnapInvocations == Len(snap_calls) + (IF rs_pc = "snapping" THEN 1 ELSE 0)

\* a result within the failure ceiling, the distance band and the score floor
AcceptedRoute(result) ==
    /\ distance_km > 0
    /\ 100 * result.failed_segments <= MAX_FAILED_SEGMENT_RATIO * Max(result.total_segments, 1)
    /\ TARGET_RATIO_MIN * distance_km <= 100 * result.distance_m
    /\ 100 * result.distance_m <= TARGET_RATIO_MAX * distance_km
    /\ calculate_route_quality(result, distance_km) >= 10 * MIN_ACCEPTABLE_SCORE

C13_OneOutcome ==
    /\ SnapInvocations <= MAX_ITERATIONS
    /\ ~ScalingTerminal => rs_ret = NoRet
    /\ rs_pc = "returned" =>
          /\ rs_ret.kind = "return"
          /\ rs_ret.value.some
          /\ DOMAIN rs_ret.value =
                {"some", "result", "scale_factor", "score", "distance_ratio"}
          /\ \E k \in 1..Len(snap_calls) :
                /\ Returned(k)
                /\ rs_ret.value.result = snap_calls[k].outcome.result
          /\ AcceptedRoute(rs_ret.value.result)
    /\ rs_pc = "raised" =>
          /\ rs_ret.kind \in {"ValueError", "ZeroDivisionError"}
          /\ "value" \notin DOMAIN rs_ret

\* the number of steps route_with_scaling can still take
StepsLeft ==
    CASE rs_pc = "loop"     -> 2 * (MAX_ITERATIONS - Len(snap_calls)) + 2
      [] rs_pc = "snapping" -> 2 * (MAX_ITERATIONS - Len(snap_calls)) + 1
      [] rs_pc = "validate" -> 1
      [] OTHER              -> 0

\* C13: route_with_scaling ends after at most MAX_ITERATIONS snap calls, and
\* ends in exactly one outcome: a candidate that passed the acceptance check
\* is returned, or an error is raised and nothing is returned.  (It ends
\* because every step lowers StepsLeft, which is never negative and is 0
\* only when the call has ended; before that the position is one of loop,
\* snapping and validate, whose steps SnapCall, SnapReturn and Validate wait
\* for nothing but the position.)
C13_TerminatesInOneOutcome ==
    /\ [](C13_OneOutcome /\ StepsLeft >= 0)
    /\ [](rs_pc \in {"loop", "snapping", "validate", "returned", "raised"})
    /\ [](StepsLeft = 0 <=> ScalingTerminal)
    /\ [][StepsLeft' < StepsLeft]_vars

\* the fourth snap call converged and its candidate was returned
C13_Witness ==
    /\ Len(snap_calls) = MAX_ITERATIONS
    /\ rs_pc = "returned"

\* C14 as stated: whenever route_with_scaling raises, what it raises is a
\* ValueError that carries a reason.
C14_Claimed_OnlyValueError ==
    rs_pc = "raised" =>
        /\ rs_ret.kind = "ValueError"
        /\ "msg" \in DOMAIN rs_ret

\* a positive target, a first result of distance 0 with no failed segment,
\* and the division by actual_km has raised ZeroDivisionError
C14_Witness ==
    /\ distance_km > 0
    /\ Len(snap_calls) = 1
    /\ Returned(1)
    /\ snap_calls[1].outcome.result.distance_m = 0
    /\ snap_calls[1].outcome.result.failed_segments = 0
    /\ rs_pc = "raised"
    /\ rs_ret = [kind |-> "ZeroDivisionError"]

\* the k-th snap call returned a result that was neither rejected for poor
\* coverage nor converged, and the scale update of lines 110-112 ran
ScaleUpdatedAfter(k) ==
    /\ Returned(k)
    /\ ~too_many_failed(snap_calls[k].outcome.result)
    /\ distance_km # 0
    /\ ~converged(distance_ratio_of(snap_calls[k].outcome.result, distance_km))
    /\ snap_calls[k].outcome.result.distance_m # 0

\* the scale_factor in force after the k-th snap call
ScaleAfter(k) ==
    IF k < Len(snap_calls) THEN snap_calls[k + 1].scale_factor ELSE scale_factor

\* p <= q for fractions in lowest terms, comparing over the least common
\* denominator
NoLarger(p, q) ==
    LET g == GCD(p[2], q[2])
    IN  p[1] * (q[2] \div g) <= q[1] * (p[2] \div g)

\* clamp(scale * (1 + (target / actual - 1) * 0.6), 0.3, 2.5), written out as
\* scale * (2 * actual + 3 * target) / (5 * actual)
ClampedUpdate(scale, actual_m, target_m) ==
    LET raw == FracMul(scale, Frac(2 * actual_m + 3 * target_m, 5 * actual_m))
    IN  IF FracLess(raw, <<3, 10>>) THEN <<3, 10>>
        ELSE IF FracLess(<<25, 10>>, raw) THEN <<25, 10>>
        ELSE raw

\* C18: the scale_factor of the first iteration is 1.0 and that of every
\* iteration lies within [0.3, 2.5]; after an iteration that did not converge
\* it becomes clamp(scale_factor * (1 + (target/actual - 1) * 0.6), 0.3, 2.5),
\* which is no larger after a routed distance above the band and no smaller
\* after one below it; any other iteration leaves it as it was.
C18_ScaleFactorRule ==
    /\ snap_calls = <<>> => scale_factor = <<1, 1>>
    /\ snap_calls # <<>> => snap_calls[1].scale_factor = <<1, 1>>
    /\ FracLeq(<<3, 10>>, scale_factor) /\ FracLeq(scale_factor, <<25, 10>>)
    /\ \A k \in 1..Len(snap_calls) :
          LET before == snap_calls[k].scale_factor
              after == ScaleAfter(k)
              actual_m == snap_calls[k].outcome.result.distance_m
          IN  /\ FracLeq(<<3, 10>>, before) /\ FracLeq(before, <<25, 10>>)
              /\ IF ScaleUpdatedAfter(k)
                 THEN /\ after = ClampedUpdate(before, actual_m, distance_km)
                      /\ 100 * actual_m > TARGET_RATIO_MAX * distance_km =>
                            NoLarger(after, before)
                      /\ 100 * actual_m < TARGET_RATIO_MIN * distance_km =>
                            NoLarger(before, after)
                 ELSE /\ after = before
                      /\ k = Len(snap_calls)

\* a run whose scale_factor went down after a long route, up after a short one,
\* and was held at a bound of the range by the clamp
C18_Witness ==
    /\ \E k \in 1..Len(snap_calls) :
          /\ ScaleUpdatedAfter(k)
          /\ 100 * snap_calls[k].outcome.result.distance_m > TARGET_RATIO_MAX * distance_km
          /\ FracLess(ScaleAfter(k), snap_calls[k].scale_factor)
    /\ \E k \in 1..Len(snap_calls) :
          /\ ScaleUpdatedAfter(k)
          /\ 100 * snap_calls[k].outcome.result.distance_m < TARGET_RATIO_MIN * distance_km
          /\ FracLess(snap_calls[k].scale_factor, ScaleAfter(k))
    /\ \E k \in 1..Len(snap_calls) :
          /\ ScaleUpdatedAfter(k)
          /\ ScaleAfter(k) = <<SCALE_MAX, 10>>
          /\ ScaleAfter(k) # FracMul(snap_calls[k].scale_factor,
                                     Frac(2 * snap_calls[k].outcome.result.distance_m
                                            + 3 * distance_km,
                                          5 * snap_calls[k].outcome.result.distance_m))


\* the k-th snap call returned a result that passed the coverage check and
\* whose distance_ratio was computed (lines 84-86)
EvaluatedAt(k) == Returned(k) /\ ~PoorCoverage(k) /\ distance_km > 0

\* how far the k-th result's distance is from the target, in metres
MetresOff(k) == Abs(snap_calls[k].outcome.result.distance_m - distance_km)

\* the evaluated iteration closest to the target, the earliest on ties
Closest ==
    CHOOSE k \in 1..Len(snap_calls) :
        /\ EvaluatedAt(k)
        /\ \A j \in 1..Len(snap_calls) :
              EvaluatedAt(j) =>
                  \/ MetresOff(k) < MetresOff(j)
                  \/ MetresOff(k) = MetresOff(j) /\ k <= j

\* the loop ran MAX_ITERATIONS iterations and none of them converged
BudgetExhausted == iteration = MAX_ITERATIONS

\* C23: after every iteration of route_with_scaling the tracked best
\* candidate is the one of the evaluated iteration whose distance_ratio is
\* closest to 1.0, the earliest on ties; when the loop has used up its
\* iterations without converging, that candidate is returned if
\* is_route_acceptable passes it, and otherwise the call raises with the
\* reason is_route_acceptable gave for it.
C23_BestIsClosest ==
    /\ best_result.some <=> \E k \in 1..Len(snap_calls) : EvaluatedAt(k)
    /\ best_result.some =>
          /\ best_result.result = snap_calls[Closest].outcome.result
          /\ best_result.scale_factor = snap_calls[Closest].scale_factor
          /\ best_result.distance_ratio[1] * distance_km
                = snap_calls[Closest].outcome.result.distance_m * best_result.distance_ratio[2]
          /\ best_distance_diff[1] * distance_km = MetresOff(Closest) * best_distance_diff[2]
    /\ BudgetExhausted =>
          /\ Len(snap_calls) = MAX_ITERATIONS
          /\ \A k \in 1..MAX_ITERATIONS : EvaluatedAt(k) /\ ~ConvergedAt(k)
          /\ rs_pc \in {"validate", "returned", "raised"}
          /\ rs_pc = "returned" =>
                /\ is_route_acceptable(snap_calls[Closest].outcome.result, distance_km).ok
                /\ rs_ret.value = best_result
          /\ rs_pc = "raised" =>
                /\ ~is_route_acceptable(snap_calls[Closest].outcome.result, distance_km).ok
                /\ rs_ret = [kind |-> "ValueError",
                             msg |-> <<"Route failed quality check",
                                       is_route_acceptable(snap_calls[Closest].outcome.result,
                                                           distance_km).reason>>]

\* four iterations without convergence, the first two equally close to the
\* target and closer than the later ones; the first one was kept and failed
\* the acceptance check
C23_Witness ==
    /\ BudgetExhausted
    /\ rs_pc = "raised"
    /\ MetresOff(1) = MetresOff(2)
    /\ MetresOff(3) > MetresOff(1)
    /\ snap_calls[1].scale_factor # snap_calls[2].scale_factor
    /\ best_result.scale_factor = snap_calls[1].scale_factor


\* some iteration so far has converged
SomeConverged == \E k \in 1..Len(snap_calls) : ConvergedAt(k)

\* C28: route_with_scaling returns no candidate whose distance_ratio is
\* outside [0.7, 1.5] or whose failed-segment ratio is above 0.25: what it
\* returns has passed is_route_acceptable, and a run in which no iteration
\* converges within MAX_ITERATIONS raises and returns nothing.
C28_ReturnsOnlyAccepted ==
    /\ rs_pc = "returned" =>
          LET r == rs_ret.value.result
          IN  /\ 100 * r.failed_segments <= MAX_FAILED_SEGMENT_RATIO * Max(r.total_segments, 1)
              /\ TARGET_RATIO_MIN * distance_km <= 100 * r.distance_m
              /\ 100 * r.distance_m <= TARGET_RATIO_MAX * distance_km
              /\ is_route_acceptable(r, distance_km) = Accepted
              /\ SomeConverged
    /\ (ScalingTerminal /\ ~SomeConverged) =>
          /\ rs_pc = "raised"
          /\ "value" \notin DOMAIN rs_ret
    /\ (~SomeConverged /\ Len(snap_calls) = MAX_ITERATIONS) => rs_pc # "returned"

\* four iterations of 8000 m for a target of 5000 m: the best candidate is
\* refused as too long and the call raises
C28_Witness ==
    /\ Len(snap_calls) = MAX_ITERATIONS
    /\ iteration = MAX_ITERATIONS
    /\ ~SomeConverged
    /\ best_result.some
    /\ best_result.result.distance_m = 8000
    /\ rs_pc = "raised"
    /\ rs_ret = [kind |-> "ValueError",
                 msg |-> <<"Route failed quality check", "route too long">>]


-----------------------------------------------------------------------------
(* evaluate_shape against route_with_scaling, checked under SpecScaling: the
   snap responses route_with_scaling was given are fed to evaluate_shape *)

ComparedShape == [some |-> TRUE, d |-> "heart", valid |-> TRUE]

\* the coroutine of evaluate_shape at its start and after each of the first k
\* responses of snap_calls; once it has finished it takes no further response
RECURSIVE EsRun(_)
EsRun(k) ==
    IF k = 0 THEN <<es_start("heart", ComparedShape)>>
    ELSE LET run == EsRun(k - 1)
             before == run[k]
         IN  Append(run, IF before.st = "done" THEN before
                         ELSE es_resume(before, snap_calls[k].outcome, distance_km))

\* the coroutine after the first k responses
EsAfter(k) == EsRun(k)[k + 1]

\* the number of iterations a run of evaluate_shape has made
IterationsOf(run) == Cardinality({k \in 1..(Len(run) - 1) : run[k].st = "snapping"})

EsIterations == IterationsOf(EsRun(Len(snap_calls)))

\* the ratio of the k-th result lies within [lo, hi], in hundredths
RatioWithin(k, lo, hi) ==
    /\ lo * distance_km <= 100 * snap_calls[k].outcome.result.distance_m
    /\ 100 * snap_calls[k].outcome.result.distance_m <= hi * distance_km

\* the k-th response ends the loop of route_with_scaling with an error
ErrorAt(k) ==
    \/ ~Returned(k)
    \/ PoorCoverage(k)
    \/ distance_km = 0
    \/ ~RatioWithin(k, TARGET_RATIO_MIN, TARGET_RATIO_MAX)
          /\ snap_calls[k].outcome.result.distance_m = 0

\* the k-th response ends the loop of evaluate_shape with an error
EsErrorAt(k) ==
    \/ ~Returned(k)
    \/ PoorCoverage(k)
    \/ distance_km = 0
    \/ ~RatioWithin(k, MIN_DISTANCE_RATIO, MAX_DISTANCE_RATIO)
          /\ snap_calls[k].outcome.result.distance_m = 0

\* the iteration among the first m closest to the target, the earliest on ties
ClosestOf(m) ==
    CHOOSE k \in 1..m :
        \A j \in 1..m : \/ MetresOff(k) < MetresOff(j)
                        \/ MetresOff(k) = MetresOff(j) /\ k <= j

\* C26 as claimed: fed the same responses, evaluate_shape and
\* route_with_scaling run the same number of iterations, and evaluate_shape
\* reports success exactly when route_with_scaling returns a candidate, the
\* same one.
C26_Claimed_SameAsScalingController ==
    ScalingTerminal =>
        LET es == EsAfter(Len(snap_calls))
        IN  /\ es.st = "done"
            /\ EsIterations = Len(snap_calls)
            /\ es.ret.success <=> rs_pc = "returned"
            /\ rs_pc = "returned" =>
                  /\ es.ret.result = rs_ret.value.result
                  /\ es.ret.scale_factor = rs_ret.value.scale_factor

\* C26, amended: fed the same responses, evaluate_shape and
\* route_with_scaling use the same scale_factor sequence and track the same
\* best candidate for as long as both keep iterating, with the same failure
\* ceiling of 0.25 and at most 4 iterations; evaluate_shape stops on a
\* distance ratio within [0.5, 1.3] instead of [0.7, 1.5], and reports
\* success, with the candidate closest to the target, exactly when it ends
\* without an error and that candidate's ratio lies within [0.4, 1.5].
C26_SameScalingOwnLimits ==
    LET n == Len(snap_calls)
        run == EsRun(n)
        m == IterationsOf(run)
        es == run[n + 1]
    IN  /\ m <= ES_MAX_ITERATIONS /\ ES_MAX_ITERATIONS = MAX_ITERATIONS
        /\ \A k \in 1..m :
              /\ run[k].scale_factor = snap_calls[k].scale_factor
              /\ run[k].iteration = k - 1
        /\ (es.st = "snapping" /\ rs_pc = "loop") =>
              /\ es.scale_factor = scale_factor
              /\ es.best_result.some = best_result.some
              /\ best_result.some =>
                    /\ es.best_result.result = best_result.result
                    /\ es.best_result.scale_factor = best_result.scale_factor
                    /\ es.best_distance_ratio = best_result.distance_ratio
        /\ \A k \in 1..n :
              (run[k].st = "snapping") =>
                  (run[k + 1].st = "done" <=>
                      \/ EsErrorAt(k)
                      \/ RatioWithin(k, MIN_DISTANCE_RATIO, MAX_DISTANCE_RATIO)
                      \/ k = ES_MAX_ITERATIONS)
        /\ \A k \in 1..n :
              (k < n \/ rs_pc \notin {"snapping"}) =>
                  ((k = n /\ rs_pc # "loop") <=>
                      \/ ErrorAt(k)
                      \/ RatioWithin(k, TARGET_RATIO_MIN, TARGET_RATIO_MAX)
                      \/ k = MAX_ITERATIONS)
        /\ es.st = "done" =>
              /\ m >= 1
              /\ es.ret.success <=>
                    /\ ~EsErrorAt(m)
                    /\ RatioWithin(ClosestOf(m), 40, 150)
              /\ es.ret.success =>
                    /\ es.ret.result = snap_calls[ClosestOf(m)].outcome.result
                    /\ es.ret.scale_factor = snap_calls[ClosestOf(m)].scale_factor
                    /\ es.ret.iterations = m
              /\ ~es.ret.raised

\* a first result of 0.6 times the target: evaluate_shape stops there and
\* reports success, route_with_scaling goes on for four iterations and raises
C26_Witness ==
    /\ Len(snap_calls) = MAX_ITERATIONS
    /\ rs_pc = "raised"
    /\ distance_km = 5000
    /\ Returned(1)
    /\ snap_calls[1].outcome.result.distance_m = 3000
    /\ snap_calls[1].outcome.result.failed_segments = 0
    /\ EsIterations = 1
    /\ EsAfter(1).st = "done"
    /\ EsAfter(1).ret.success

-----------------------------------------------------------------------------
(* Claims about local_search_refine, checked under SpecRefine *)

\* in the first round no evaluation gave a score above the seed's
FirstRoundWithoutImprovement == offers # <<>> /\ offers[1].best <= seed_score

\* C15: when every candidate of the first round scores no higher than the
\* seed or its evaluation raises, there is no second round, the current
\* triple stays the seed's, and the seed points, score and result are
\* returned.
C15_NoImprovementReturnsSeed ==
    FirstRoundWithoutImprovement =>
        /\ Len(offers) = 1
        /\ refine_round = 0
        /\ current_points = seed_points
        /\ current_score = seed_score
        /\ current_result = seed_result
        /\ ls_pc \in {"candidates", "eval", "returned"}
        /\ ls_pc = "returned" =>
              ls_ret = [kind |-> "return", points |-> seed_points, score |-> seed_score,
                        result |-> seed_result]

\* a first round of lower scores and raising evaluations has ended the search
C15_Witness ==
    /\ ls_pc = "returned"
    /\ Len(offers) = 1
    /\ offers[1].evaluated >= 4
    /\ evaluation_raised
    /\ offers[1].best = 400


\* a round has just ended with the acceptance of its best candidate
MoveAccepted == refine_round' = refine_round + 1

\* a round has just ended without an accepted move
SearchStopped == ls_pc = "candidates" /\ ls_pc' = "returned"

\* the greatest score among the evaluations of the round under way that did
\* not raise, or -1 when there is none
BestOffered == offers[Len(offers)].best

\* the indices where two sequences of the same length differ
Moved(ps, qs) == {k \in 1..Len(ps) : ps[k] # qs[k]}

\* C24 as claimed: a move is accepted only if its improvement exceeds the
\* improvement threshold.
C24_Claimed_AcceptsOnlyAboveThreshold ==
    [][MoveAccepted => current_score' - current_score > improvement_threshold]_vars

\* C24, amended: each round accepts at most one move, the candidate with the
\* greatest improvement over the current score among those evaluated in the
\* round, and only if that improvement is at least the improvement
\* threshold; otherwise the search stops.  After r accepted rounds the
\* current points differ from the seed in at most r points, each accepted
\* move being one nudge of one point, and at most max_iterations rounds run.
C24_OneBestMovePerRound ==
    /\ [][MoveAccepted =>
            (/\ ls_pc = "candidates" /\ ls_pc' = "round"
             /\ current_score' = BestOffered
             /\ current_score' - current_score >= improvement_threshold
             /\ \E k \in 1..Len(current_points), d \in 1..4 :
                   current_points' = nudge_point_set(current_points, k - 1, DIRECTIONS[d]))]_vars
    /\ [][SearchStopped =>
            (\/ refine_round = max_iterations
             \/ BestOffered - current_score < improvement_threshold)]_vars
    /\ [][(current_points' # current_points \/ current_score' # current_score)
             => MoveAccepted]_vars
    /\ [](refine_round = 0 => current_points = seed_points)
    /\ [](Len(current_points) = Len(seed_points))
    /\ [](Cardinality(Moved(current_points, seed_points)) <= refine_round)
    /\ [](refine_round <= Len(offers) /\ Len(offers) <= max_iterations)

\* a move that improves the score by exactly the threshold has been accepted
C24_Witness ==
    /\ refine_round = 1
    /\ current_score = seed_score + improvement_threshold
    /\ Cardinality(Moved(current_points, seed_points)) = 1
    /\ offers[1].evaluated >= 4


\* the same length as the seed, and the seed's first and last points
KeepsEnds(points) ==
    /\ Len(points) = Len(seed_points)
    /\ points # <<>> => /\ points[1] = seed_points[1]
                        /\ points[Len(points)] = seed_points[Len(seed_points)]

\* the candidate handed to evaluate_fn, while its evaluation is awaited
BeingEvaluated == ls_pc = "eval"

OneEvaluation(points, score, result) ==
    /\ result = [points |-> points, score |-> score]
    /\ score \in CandidateScores

SeedTriple(points, score, result) ==
    points = seed_points /\ score = seed_score /\ result = seed_result

\* C30: the current score of local_search_refine never decreases; after
\* every round and at return it is at least seed_score, and above seed_score
\* exactly when a move was accepted; the current and the returned (points,
\* score, result) are the seed's three or the three of one single
\* evaluate_fn call.
C30_ScoreNeverDecreases ==
    /\ [][current_score' >= current_score]_vars
    /\ [](current_score >= seed_score)
    /\ [](current_score > seed_score <=> refine_round > 0)
    /\ [](IF refine_round = 0
          THEN SeedTriple(current_points, current_score, current_result)
          ELSE /\ OneEvaluation(current_points, current_score, current_result)
               /\ ~SeedTriple(current_points, current_score, current_result))
    /\ [](ls_pc = "returned" =>
             /\ ls_ret.points = current_points
             /\ ls_ret.score = current_score
             /\ ls_ret.result = current_result
             /\ \/ SeedTriple(ls_ret.points, ls_ret.score, ls_ret.result)
                \/ OneEvaluation(ls_ret.points, ls_ret.score, ls_ret.result))

\* two moves were accepted, the second in a round where a candidate scoring
\* below the current score, yet above the seed, had come first
C30_Witness ==
    /\ ls_pc = "returned"
    /\ refine_round = 2
    /\ ls_ret.score = 530
    /\ ls_ret.result = [points |-> ls_ret.points, score |-> 530]
    /\ evaluation_raised

-----------------------------------------------------------------------------
(* Claims about suggest_best_route, checked under SpecSuggest *)

\* the coroutines whose evaluation succeeded, and those whose evaluation failed
Passed == {t \in 1..Len(shape_tasks) :
              shape_tasks[t].st = "done" /\ shape_tasks[t].ret.success}

Failures == {t \in 1..Len(shape_tasks) :
                shape_tasks[t].st = "done" /\ ~shape_tasks[t].ret.success}

ScoreOf(t) == shape_tasks[t].ret.score

Alternatives == sg_ret.suggestion_metadata.alternatives

\* the coroutine an alternative names
Listed(j) == CHOOSE t \in Passed : shape_tasks[t].shape_name = Alternatives[j].name

\* the winner is a successful candidate of maximum score, and the alternatives
\* are at most 5, name distinct successful candidates, are in non-increasing
\* score order and leave out no candidate that scores more than a listed one
WinnerAndRanking ==
    /\ Passed # {}
    /\ \E t \in Passed :
          /\ shape_tasks[t].shape_name = sg_ret.shape_id
          /\ ScoreOf(t) = sg_ret.score
          /\ shape_tasks[t].ret.result.route = sg_ret.route
    /\ \A t \in Passed : FracLeq(ScoreOf(t), sg_ret.score)
    /\ Len(Alternatives) <= 5
    /\ Len(Alternatives) = Min(5, Cardinality(Passed))
    /\ \A j \in 1..Len(Alternatives) :
          \E t \in Passed : shape_tasks[t].shape_name = Alternatives[j].name
    /\ \A j, k \in 1..Len(Alternatives) :
          j < k => /\ Alternatives[j].name # Alternatives[k].name
                   /\ FracLeq(ScoreOf(Listed(k)), ScoreOf(Listed(j)))
                   /\ FracLeq(Alternatives[k].score, Alternatives[j].score)
    /\ \A t \in Passed :
          (\A j \in 1..Len(Alternatives) : Listed(j) # t) =>
              \A j \in 1..Len(Alternatives) : FracLeq(ScoreOf(t), ScoreOf(Listed(j)))

\* C16 as claimed: when a candidate succeeds, the winner and the ranking are
\* as above and the winner's score equals the first alternative's score.
C16_Claimed_WinnerScoreIsFirstAlternative ==
    sg_pc = "returned" =>
        /\ WinnerAndRanking
        /\ sg_ret.score = Alternatives[1].score

\* C16, amended: when at least one candidate succeeds, suggest_best_route
\* returns as winner a successful candidate whose score is the maximum over
\* the successful candidates, with at most 5 alternatives that are the
\* highest-scoring successful candidates in non-increasing score order; the
\* first alternative is the winner, and every alternative is listed with its
\* score rounded to one decimal.
C16_WinnerIsFirstAlternativeRounded ==
    /\ sg_pc = "raised" => Passed = {}
    /\ sg_pc = "returned" =>
          /\ WinnerAndRanking
          /\ Alternatives[1].name = sg_ret.shape_id
          /\ \A j \in 1..Len(Alternatives) :
                LET listed == Alternatives[j].score
                    exact == ScoreOf(Listed(j))
                IN  /\ 10 % listed[2] = 0
                    /\ FracLeq(FracAbs(FracSub(listed, exact)), <<1, 20>>)

\* six candidates succeeded with two different scores, five are listed, and
\* the winner's score differs from the rounded score of the first alternative
C16_Witness ==
    /\ sg_pc = "returned"
    /\ Cardinality(Passed) = 6
    /\ Len(Alternatives) = 5
    /\ sg_ret.score # Alternatives[1].score
    /\ \E t, u \in Passed : FracLess(ScoreOf(t), ScoreOf(u))
    /\ Alternatives[5].score # Alternatives[1].score

\* the evaluation of coroutine t ended in an exception that evaluate_shape
\* caught, or in a rejection by one of its quality checks
EndedInException(t) ==
    /\ t \in Failures
    /\ shape_tasks[t].ret.error.text \in {"sample_svg_path raised",
                                          "OSRM routing failed for all segments",
                                          "float division by zero"}

EndedInRejection(t) ==
    /\ t \in Failures
    /\ shape_tasks[t].ret.error.text \in {"no valid route found",
                                          "too many failed segments",
                                          "distance mismatch"}

\* C17: a candidate whose evaluation fails, by a quality rejection or by an
\* exception, is recorded as a failure and no exception leaves its coroutine;
\* the other coroutines stay untouched by it and run to their end, the call
\* ends only once every candidate is done, it raises (a ValueError) only when
\* every candidate failed, and on return candidates_tried is candidates_passed
\* plus the number of failures.
C17_FailuresStayLocal ==
    /\ [](\A t \in 1..Len(shape_tasks) :
             /\ shape_tasks[t].st \in {"snapping", "done"}
             /\ shape_tasks[t].shape_name = candidate_shapes[t].name
             /\ shape_tasks[t].st = "done" =>
                   /\ ~shape_tasks[t].ret.raised
                   /\ t \in Failures => (EndedInException(t) \/ EndedInRejection(t)))
    /\ []((sg_pc \in {"returned", "raised"}) =>
             /\ Len(shape_results) = Len(candidate_shapes)
             /\ Passed \cup Failures = 1..Len(candidate_shapes)
             /\ \A t \in 1..Len(shape_tasks) : shape_results[t] = shape_tasks[t].ret)
    /\ [](sg_pc = "raised" =>
             /\ Passed = {}
             /\ sg_ret.kind = "ValueError"
             /\ sg_ret.msg = <<"Could not find a suitable route", Len(candidate_shapes)>>)
    /\ [](sg_pc = "returned" =>
             /\ Passed # {}
             /\ sg_ret.shape_id \in {shape_tasks[t].shape_name : t \in Passed}
             /\ sg_ret.suggestion_metadata.candidates_tried = Len(candidate_shapes)
             /\ sg_ret.suggestion_metadata.candidates_passed = Cardinality(Passed)
             /\ sg_ret.suggestion_metadata.candidates_tried =
                   sg_ret.suggestion_metadata.candidates_passed + Cardinality(Failures))
    /\ [][sg_pc = "gather" =>
             (/\ Len(shape_tasks') = Len(shape_tasks)
              /\ \A t, u \in 1..Len(shape_tasks) :
                    (t # u /\ shape_tasks'[t] # shape_tasks[t]) =>
                        shape_tasks'[u] = shape_tasks[u]
              /\ \A t \in 1..Len(shape_tasks) :
                    shape_tasks[t].st = "done" => shape_tasks'[t] = shape_tasks[t]
              /\ (sg_pc' # "gather") =>
                    \A t \in 1..Len(shape_tasks) : shape_tasks[t].st = "done")]_vars

\* a call returned a winner although one candidate had raised in the road
\* snapper, one was rejected by a quality check and one could not be parsed
C17_Witness ==
    /\ sg_pc = "returned"
    /\ Cardinality(Passed) >= 2
    /\ \E t \in Failures : shape_tasks[t].ret.error.text = "OSRM routing failed for all segments"
    /\ \E t \in Failures : shape_tasks[t].ret.error.text = "sample_svg_path raised"
    /\ \E t \in Failures : EndedInRejection(t)
    /\ sg_ret.suggestion_metadata.candidates_tried = Cardinality(Passed) + 3

=============================================================================
